---- MODULE Spec2Model ----
(***************************************************************************)
(* A model of the streaming ingestion side of the repository:              *)
(* BinanceCollector (src/data_collector.py) with its per-symbol            *)
(* connect_symbol tasks, the shared tick buffer, the save_buffer task and  *)
(* Collector.run, writing through Database.insert_ticks_batch              *)
(* (src/database.py).                                                      *)
(*                                                                         *)
(* The tasks are asyncio coroutines on one event loop: a task runs until   *)
(* its next `await`, so every action below is the code between two         *)
(* suspension points of one task.                                          *)
(***************************************************************************)
EXTENDS Integers, Sequences, FiniteSets, TLC

(***************************************************************************)
(* Bounds of the model.                                                    *)
(***************************************************************************)
\* The number of messages the connections receive in one run.
MaxMsgs == 2

(***************************************************************************)
(* Program constants.                                                      *)
(***************************************************************************)
MAX_RECONNECT_DELAY == 60
INITIAL_RECONNECT_DELAY == 1

Min(a, b) == IF a <= b THEN a ELSE b

(***************************************************************************)
(* Strings are sequences of one-character strings, so that str.lower and   *)
(* str.strip are computed rather than assumed.                             *)
(***************************************************************************)
LowerChar(c) ==
    CASE c = "A" -> "a"
      [] c = "B" -> "b"
      [] OTHER -> c

StrLower(s) == [i \in 1..Len(s) |-> LowerChar(s[i])]

RECURSIVE LStrip(_)
LStrip(s) == IF s # <<>> /\ Head(s) = " " THEN LStrip(Tail(s)) ELSE s

RECURSIVE RStrip(_)
RStrip(s) ==
    IF s # <<>> /\ s[Len(s)] = " " THEN RStrip(SubSeq(s, 1, Len(s) - 1)) ELSE s

StrStrip(s) == LStrip(RStrip(s))

\* The `symbols` lists handed to BinanceCollector.__init__ in this model:
\* one symbol, two symbols that differ, two spellings of one symbol, a
\* blank name beside a real one, and lists the constructor rejects.
RawConfigs ==
    { << <<"A">> >>,
      << <<"A">>, <<"b", " ">> >>,
      << <<"A">>, <<"a">> >>,
      << <<" ">>, <<"b", " ">> >>,
      << <<" ">> >>,
      << >> }

\* self.symbols = [s.lower().strip() for s in symbols if s.strip()]
NormalizedSymbols(raw) ==
    LET kept == SelectSeq(raw, LAMBDA s : StrStrip(s) # <<>>)
    IN  [i \in 1..Len(kept) |-> StrStrip(StrLower(kept[i]))]

\* __init__ raises ValueError when no symbol is left.
Accepted(raw) == NormalizedSymbols(raw) # <<>>

(***************************************************************************)
(* Decoded JSON values: null, a number, or a string (a sequence of         *)
(* characters).  A dict is a function from its keys to values.             *)
(***************************************************************************)
Null == [null |-> TRUE]
Num(n) == [num |-> n]
Str(s) == [str |-> s]

IsNum(v) == DOMAIN v = {"num"}
IsStr(v) == DOMAIN v = {"str"}
IsNull(v) == DOMAIN v = {"null"}

\* dict.get(key): the value, or None when the key is absent.
Get(data, key) == IF key \in DOMAIN data THEN data[key] ELSE Null

\* dict.get(key, default)
GetOr(data, key, default) == IF key \in DOMAIN data THEN data[key] ELSE default

\* Python truthiness of a decoded value: None, 0 and "" are false.
Truthy(v) ==
    CASE IsNull(v) -> FALSE
      [] IsNum(v) -> v.num # 0
      [] IsStr(v) -> v.str # <<>>

\* a or b
PyOr(a, b) == IF Truthy(a) THEN a ELSE b

Digits == <<"0", "1", "2", "3", "4", "5", "6", "7", "8", "9">>

IsDigit(c) == \E i \in 1..10 : Digits[i] = c

DigitVal(c) == (CHOOSE i \in 1..10 : Digits[i] = c) - 1

RECURSIVE DecimalVal(_)
DecimalVal(s) ==
    IF s = <<>> THEN 0
    ELSE 10 * DecimalVal(SubSeq(s, 1, Len(s) - 1)) + DigitVal(s[Len(s)])

AllDigits(s) == s # <<>> /\ \A i \in 1..Len(s) : IsDigit(s[i])

\* float(v): a number is kept, a string is parsed (an optional sign and
\* digits), anything else raises (ValueError for a malformed string,
\* TypeError for None).  The result is [ok, val].
PyFloat(v) ==
    CASE IsNum(v) -> [ok |-> TRUE, val |-> v.num]
      [] IsStr(v) ->
            IF AllDigits(v.str)
            THEN [ok |-> TRUE, val |-> DecimalVal(v.str)]
            ELSE IF v.str # <<>> /\ Head(v.str) = "-" /\ AllDigits(Tail(v.str))
            THEN [ok |-> TRUE, val |-> 0 - DecimalVal(Tail(v.str))]
            ELSE [ok |-> FALSE, val |-> 0]
      [] IsNull(v) -> [ok |-> FALSE, val |-> 0]

\* datetime.fromtimestamp(ms / 1000): the local wall-clock time of the
\* instant, kept in milliseconds; tz is the local offset from UTC.
FromTimestamp(ms, tz) == ms + tz

\* BinanceCollector.normalize.  now is datetime.utcnow() in milliseconds.
\* The result is [raised |-> TRUE] when the function raises, and
\* [raised |-> FALSE, tick |-> ...] otherwise.
Normalize(data, now, tz) ==
    LET timestamp == PyOr(PyOr(Get(data, "T"), Get(data, "E")), Get(data, "t"))
        sym == GetOr(data, "s", Str(<<>>))
        price == PyFloat(GetOr(data, "p", Num(0)))
        size == PyFloat(GetOr(data, "q", Num(0)))
    IN  IF Truthy(timestamp) /\ ~IsNum(timestamp)
        THEN [raised |-> TRUE]          \* str / 1000: TypeError
        ELSE IF ~IsStr(sym)
        THEN [raised |-> TRUE]          \* None.lower(): AttributeError
        ELSE IF ~price.ok \/ ~size.ok
        THEN [raised |-> TRUE]          \* float(): ValueError, TypeError
        ELSE [raised |-> FALSE,
              tick |-> [symbol |-> StrLower(sym.str),
                        timestamp |-> IF Truthy(timestamp)
                                      THEN FromTimestamp(timestamp.num, tz)
                                      ELSE now,
                        price |-> price.val,
                        size |-> size.val]]

TradeStr == <<"t", "r", "a", "d", "e">>

(***************************************************************************)
(* A received websocket message: its text does not decode                  *)
(* (json.JSONDecodeError), decodes to something that is not a dict, or     *)
(* decodes to a dict.                                                      *)
(***************************************************************************)
Malformed == [body |-> "malformed"]
NotObject == [body |-> "array"]
Object(d) == [body |-> "object", data |-> d]

\* Whether the message is a trade event: data.get('e') == 'trade'.
IsTradeEvent(m) == m.body = "object" /\ Get(m.data, "e") = Str(TradeStr)

\* handle_trade putting the new tick in front of the buffer.
HandleTradeBufferPrepend(buf, m, now, tz, tag) ==
    IF m.body # "object" THEN buf
    ELSE IF Get(m.data, "e") # Str(TradeStr) THEN buf
    ELSE LET n == Normalize(m.data, now, tz)
         IN  IF n.raised THEN buf
             ELSE <<[tick |-> n.tick, conn |-> tag.conn, seq |-> tag.seq]>> \o buf

\* handle_trade without the test of the event kind.
HandleTradeBufferAnyEvent(buf, m, now, tz, tag) ==
    IF m.body # "object" THEN buf
    ELSE LET n == Normalize(m.data, now, tz)
         IN  IF n.raised THEN buf
             ELSE Append(buf, [tick |-> n.tick, conn |-> tag.conn, seq |-> tag.seq])

\* The try body of handle_trade applied to the buffer: the buffer after the
\* call.  Every exception is caught and logged, the buffer is then as it
\* was.  tag is the bookkeeping of the model (which task appended the tick
\* and as the how-manieth), it is not data of the program.
HandleTradeBuffer(buf, m, now, tz, tag) ==
    IF m.body # "object" THEN buf
    ELSE IF ~IsTradeEvent(m) THEN buf
    ELSE LET n == Normalize(m.data, now, tz)
         IN  IF n.raised THEN buf
             ELSE Append(buf, [tick |-> n.tick, conn |-> tag.conn, seq |-> tag.seq])

\* Which except branch of handle_trade logs an error for message m, or
\* "none" when the try block ends normally.
HandleTradeLog(m, now, tz) ==
    IF m.body = "malformed" THEN "JSONDecodeError"
    ELSE IF m.body # "object" THEN "Exception"    \* list.get: AttributeError
    ELSE IF ~IsTradeEvent(m) THEN "none"
    ELSE IF Normalize(m.data, now, tz).raised THEN "Exception"
    ELSE "none"

\* handle_trade without its `except json.JSONDecodeError` (and with a
\* narrower generic handler): a decode error reaches connect_symbol.
HandleTradeRaisesOnDecode(m) == m.body = "malformed"

\* Whether handle_trade lets an exception reach connect_symbol: its two
\* except branches catch every Exception.
HandleTradeRaises(m) == FALSE

(***************************************************************************)
(* Database: the ticks table, a set of rows with their primary key.        *)
(***************************************************************************)
\* tick_id = f"{symbol}_{timestamp.isoformat()}_{price}_{size}"
TickId(tick) == <<tick.symbol, tick.timestamp, tick.price, tick.size>>

RECURSIVE AddTicks(_, _)
\* session.add in place of session.merge: a tick whose primary key is in
\* the table or earlier in the batch fails the commit, and the rollback
\* leaves the table as it was before the batch.
AddTicks(rows, batch) ==
    IF \/ \E i \in 1..Len(batch) : \E r \in rows : r.id = TickId(batch[i].tick)
       \/ \E i, j \in 1..Len(batch) : i # j /\ batch[i].tick = batch[j].tick
    THEN rows
    ELSE rows \cup {[id |-> TickId(batch[i].tick), row |-> batch[i].tick] :
                       i \in 1..Len(batch)}

RECURSIVE MergeTicks(_, _)
\* session.merge of every tick of the batch, in order: a row with the same
\* primary key is replaced.
MergeTicks(rows, batch) ==
    IF batch = <<>> THEN rows
    ELSE LET tick == Head(batch).tick
             others == {r \in rows : r.id # TickId(tick)}
         IN  MergeTicks(others \cup {[id |-> TickId(tick), row |-> tick]},
                        Tail(batch))

\* insert_ticks_batch committing tick by tick: the ticks before the one
\* that fails, the last one, stay.
InsertTicksBatchKeepsPart(rows, batch, ok) ==
    MergeTicks(rows, IF ok \/ batch = <<>> THEN batch
                     ELSE SubSeq(batch, 1, Len(batch) - 1))

\* Database.insert_ticks_batch: merge and commit, or, when anything in the
\* try block raises (ok = FALSE), log and roll back.  The rows afterwards.
InsertTicksBatch(rows, batch, ok) == IF ok THEN MergeTicks(rows, batch) ELSE rows

\* insert_ticks_batch re-raising what it caught.
InsertTicksBatchReraises(ok) == ~ok

\* Whether insert_ticks_batch lets an exception reach its caller: its
\* `except Exception` catches all of them.
InsertTicksBatchRaises(ok) == FALSE

(***************************************************************************)
(* State.                                                                  *)
(***************************************************************************)
VARIABLES
    symbols,    \* self.symbols, set by __init__
    invalidUri, \* the symbols whose stream address websockets.connect rejects
    running,    \* self.running
    delays,     \* self.reconnect_delays: symbol -> delay
    buffer,     \* self.buffer
    pc,         \* per connect_symbol task: where it is suspended
    wait,       \* per connect_symbol task: its local `delay` while it sleeps
    flushPc,    \* the save_buffer task
    runPc,      \* Collector.run
    rows,       \* the ticks table of the database
    writes,     \* the calls of insert_ticks_batch made so far (bookkeeping)
    recv,       \* the last message taken from a socket (bookkeeping)
    nrecv,      \* how many messages were taken from the sockets (bookkeeping)
    prevWait,   \* per task: its last backoff wait since it last connected
    appended    \* the ticks ever appended to the buffer (bookkeeping)

\* The input and the result of one call of handle_trade, for the properties
\* of the normalizer as a function.
VARIABLES
    nzMsg,      \* the message
    nzNow,      \* datetime.utcnow() during the call
    nzTz,       \* the local offset from UTC
    nzOut       \* the outcome of the call, once made

nzVars == <<nzMsg, nzNow, nzTz, nzOut>>

\* The input and the result of one call of resample_data.
VARIABLES
    rsTicks,    \* the DataFrame of ticks, as get_ticks returns it
    rsTf,       \* the timeframe
    rsOut       \* the outcome of the call, once made

rsVars == <<rsTicks, rsTf, rsOut>>

\* DataProcessor and the ohlc table.
VARIABLES
    procRunning, \* DataProcessor.running
    procPc,      \* DataProcessor.run
    tfPc,        \* per timeframe: where its process_timeframe task is
    tfSleep,     \* per timeframe: the length of the sleep it is in
    tfCycles,    \* per timeframe: the cycles it has run (bookkeeping)
    cycleLog,    \* the last cycle: its timeframe, symbols and error (bookkeeping)
    ohlc,        \* the ohlc table of the database
    signalled    \* whether SIGINT or SIGTERM was delivered (bookkeeping)

prVars == <<procRunning, procPc, tfPc, tfSleep, tfCycles, cycleLog, ohlc, signalled>>

\* The last call of a method of Database made on its own (bookkeeping).
VARIABLES dbCall

dbVars == <<dbCall>>

\* The last call of a function of AnalyticsEngine, with its result.
VARIABLES anCall

anVars == <<anCall>>

\* The variables the collector never touches.
otherVars == <<nzVars, rsVars, prVars, dbVars, anVars>>

\* The variables of the collector.
collectorVars == <<symbols, invalidUri, running, delays, buffer, pc, wait, flushPc,
                   runPc, rows, writes, recv, nrecv, prevWait, appended>>

vars == <<symbols, invalidUri, running, delays, buffer, pc, wait, flushPc, runPc, rows,
          writes, recv, nrecv, prevWait, appended, otherVars>>

Tasks == 1..Len(symbols)

SymbolSet == {symbols[t] : t \in Tasks}

\* The messages the sockets deliver in this model.
GoodTrade ==
    Object([e |-> Str(TradeStr), s |-> Str(<<"A">>), p |-> Str(<<"7">>),
            q |-> Str(<<"2">>), T |-> Num(1000)])
BadPriceTrade ==
    Object([e |-> Str(TradeStr), s |-> Str(<<"A">>), p |-> Str(<<"x">>),
            q |-> Str(<<"2">>), T |-> Num(1000)])
OtherEvent == Object([e |-> Str(<<"k">>), s |-> Str(<<"A">>)])

Messages == {GoodTrade, BadPriceTrade, OtherEvent, Malformed, NotObject}

\* datetime.utcnow() and the local offset from UTC, in milliseconds.
Clock == {5000}
TzOffsets == {0}

NoMessage == [conn |-> 0, msg |-> Malformed, handled |-> FALSE, logged |-> "none"]

\* The normalizer has not been given an input.
NormalizerIdle ==
    /\ nzMsg = Malformed
    /\ nzNow = 0
    /\ nzTz = 0
    /\ nzOut = [done |-> FALSE]

\* The resampler has not been given an input.
ResamplerIdle ==
    /\ rsTicks = <<>>
    /\ rsTf = "none"
    /\ rsOut = [done |-> FALSE]

\* The timeframes DataProcessor is constructed with by default.
Timeframes == {"1s", "1m", "5m"}

\* No method of Database was called on its own, no function of
\* AnalyticsEngine was called.
DbIdle == dbCall = [op |-> "none"]
AnalyticsIdle == anCall = [fn |-> "none"]

\* No cycle has run.  failAt is the number of the symbol whose processing
\* raised (0: none did), fetched the symbols get_ticks was called for, now
\* the cycle's datetime.utcnow() in ms (the clock never goes back), failing
\* the bar timestamps whose insert_ohlc failed.
NoCycle ==
    [tf |-> "none", syms |-> <<>>, failAt |-> 0, fetched |-> <<>>, now |-> 0,
     failing |-> {}]

\* DataProcessor(db) is constructed and not run.
ProcessorIdle ==
    /\ procRunning = FALSE
    /\ procPc = "NotStarted"
    /\ tfPc = [tf \in Timeframes |-> "NotStarted"]
    /\ tfSleep = [tf \in Timeframes |-> 0]
    /\ tfCycles = [tf \in Timeframes |-> 0]
    /\ cycleLog = NoCycle
    /\ ohlc = {}
    /\ signalled = FALSE

\* The state after BinanceCollector(symbols, db), for every symbols list the
\* constructor accepts; the database is apart.
CollectorInit ==
    /\ \E raw \in RawConfigs :
          /\ Accepted(raw)
          /\ symbols = NormalizedSymbols(raw)
    /\ invalidUri \in SUBSET SymbolSet
    /\ running = FALSE
    /\ delays = [s \in SymbolSet |-> INITIAL_RECONNECT_DELAY]
    /\ buffer = <<>>
    /\ pc = [t \in Tasks |-> "NotStarted"]
    /\ wait = [t \in Tasks |-> 0]
    /\ flushPc = "NotStarted"
    /\ runPc = "NotStarted"
    /\ writes = <<>>
    /\ recv = NoMessage
    /\ nrecv = 0
    /\ prevWait = [t \in Tasks |-> 0]
    /\ appended = {}

Init ==
    /\ CollectorInit
    /\ rows = {}
    /\ NormalizerIdle
    /\ ResamplerIdle
    /\ ProcessorIdle
    /\ DbIdle
    /\ AnalyticsIdle

(***************************************************************************)
(* connect_symbol(symbol), one task per entry of self.symbols.             *)
(*   "Disconnected"  created and not yet run (wait = 0), or asleep in      *)
(*                   asyncio.sleep(delay) (wait = delay > 0)               *)
(*   "Connecting"    awaiting websockets.connect(url)                      *)
(*   "Connected"     awaiting the next message of `async for`              *)
(*   "Stopped"       the coroutine has returned                            *)
(***************************************************************************)
\* connect_symbol returning at its loop test whatever the flag.
LoopTestGivesUp(run) == "Stopped"

\* The `while self.running` test: on to websockets.connect, or out.
LoopTest(run) == IF run THEN "Connecting" ELSE "Stopped"

\* AfterError without the `break` of the InvalidURI handler.
AfterErrorNoBreak(kind, run) == IF run THEN "Backoff" ELSE "Stopped"

\* connect_symbol leaving its loop at every exception.
AfterErrorExits(kind, run) == "Stopped"

\* Where an exception of the try block leads: InvalidURI breaks out of the
\* loop; any other is logged, and `if self.running` decides between the
\* backoff sleep and the loop test, which then fails.
AfterError(kind, run) ==
    IF kind = "InvalidURI" THEN "Stopped"
    ELSE IF run THEN "Backoff" ELSE "Stopped"

\* self.reconnect_delays[symbol] = min(delay * 2, self.MAX_RECONNECT_DELAY)
NextDelay(delay) == Min(delay * 2, MAX_RECONNECT_DELAY)

\* Task t moves to `to`; for "Backoff" it reads its symbol's delay into its
\* local `delay` and sleeps.
Leave(t, to) ==
    IF to = "Backoff"
    THEN /\ pc' = [pc EXCEPT ![t] = "Disconnected"]
         /\ wait' = [wait EXCEPT ![t] = delays[symbols[t]]]
         /\ prevWait' = [prevWait EXCEPT ![t] = delays[symbols[t]]]
    ELSE /\ pc' = [pc EXCEPT ![t] = to]
         /\ UNCHANGED <<wait, prevWait>>

\* Task t has had its first run.
Started(t) == pc[t] # "NotStarted" /\ ~(pc[t] = "Disconnected" /\ wait[t] = 0)

\* The event loop has run the first step of every task that run() created:
\* create_task queues them in the order of creation, connect_symbol tasks
\* first and save_buffer last, and the loop runs what is queued before it
\* looks at sockets and timers.
LoopPolls == flushPc \notin {"NotStarted", "Created"}

\* The first run of the task.
TaskStart(t) ==
    /\ pc[t] = "Disconnected" /\ wait[t] = 0
    /\ \A u \in 1..(t - 1) : Started(u)
    /\ pc' = [pc EXCEPT ![t] = LoopTest(running)]
    /\ UNCHANGED <<symbols, invalidUri, running, delays, buffer, wait, flushPc,
                   runPc, rows, writes, recv, nrecv, prevWait, appended,
                   otherVars>>

\* websockets.connect succeeds: the delay is reset.
ConnectOk(t) ==
    /\ LoopPolls
    /\ pc[t] = "Connecting"
    /\ symbols[t] \notin invalidUri
    /\ delays' = [delays EXCEPT ![symbols[t]] = INITIAL_RECONNECT_DELAY]
    /\ pc' = [pc EXCEPT ![t] = "Connected"]
    /\ prevWait' = [prevWait EXCEPT ![t] = 0]
    /\ UNCHANGED <<symbols, invalidUri, running, buffer, wait, flushPc, runPc,
                   rows, writes, recv, nrecv, appended,
                   otherVars>>

\* websockets.connect raises: InvalidURI for a rejected address, another
\* exception (refused, timed out, handshake failed) otherwise.
ConnectFail(t) ==
    /\ LoopPolls
    /\ pc[t] = "Connecting"
    /\ LET kind == IF symbols[t] \in invalidUri THEN "InvalidURI" ELSE "OSError"
       IN  Leave(t, AfterError(kind, running))
    /\ UNCHANGED <<symbols, invalidUri, running, delays, buffer, flushPc, runPc,
                   rows, writes, recv, nrecv, appended,
                   otherVars>>

\* `async for` yields message m: with the flag down the loop is left (and
\* with it the connection and the while loop), else handle_trade runs.
Receive(t, m) ==
    /\ LoopPolls
    /\ pc[t] = "Connected"
    /\ nrecv < MaxMsgs
    /\ nrecv' = nrecv + 1
    /\ IF ~running
       THEN /\ recv' = [conn |-> t, msg |-> m, handled |-> FALSE,
                        logged |-> "none"]
            /\ Leave(t, AfterError("break", running))
            /\ UNCHANGED <<buffer, appended>>
       ELSE IF HandleTradeRaises(m)
       THEN /\ recv' = [conn |-> t, msg |-> m, handled |-> TRUE,
                        logged |-> "none"]
            /\ Leave(t, AfterError("Exception", running))
            /\ UNCHANGED <<buffer, appended>>
       ELSE \E now \in Clock, tz \in TzOffsets :
            /\ recv' = [conn |-> t, msg |-> m, handled |-> TRUE,
                        logged |-> HandleTradeLog(m, now, tz)]
            /\ buffer' = HandleTradeBuffer(buffer, m, now, tz,
                                           [conn |-> t, seq |-> nrecv + 1])
            /\ appended' = IF Len(buffer') > Len(buffer)
                           THEN appended \cup {nrecv + 1}
                           ELSE appended
            /\ UNCHANGED <<pc, wait, prevWait>>
    /\ UNCHANGED <<symbols, invalidUri, running, delays, flushPc, runPc, rows,
                   writes,
                   otherVars>>

\* The connection ends: ConnectionClosed is raised, or the iteration ends
\* after a clean close.
ConnectionLost(t) ==
    /\ LoopPolls
    /\ pc[t] = "Connected"
    /\ Leave(t, AfterError("ConnectionClosed", running))
    /\ UNCHANGED <<symbols, invalidUri, running, delays, buffer, flushPc, runPc,
                   rows, writes, recv, nrecv, appended,
                   otherVars>>

\* asyncio.sleep(delay) returns: the delay is doubled from the local copy,
\* then the loop test.
BackoffWake(t) ==
    /\ LoopPolls
    /\ pc[t] = "Disconnected" /\ wait[t] > 0
    /\ delays' = [delays EXCEPT ![symbols[t]] = NextDelay(wait[t])]
    /\ wait' = [wait EXCEPT ![t] = 0]
    /\ pc' = [pc EXCEPT ![t] = LoopTest(running)]
    /\ UNCHANGED <<symbols, invalidUri, running, buffer, flushPc, runPc, rows,
                   writes, recv, nrecv, prevWait, appended,
                   otherVars>>

(***************************************************************************)
(* save_buffer, the flush task.                                            *)
(*   "Created"   not yet run                                               *)
(*   "Sleeping"  in asyncio.sleep(2)                                       *)
(*   "Writing"   suspended inside the write, if the write suspends         *)
(*   "Stopped"   the coroutine has returned                                *)
(***************************************************************************)
\* The write as an awaited call.
WriteAwaited == TRUE

\* Whether the task can be suspended between handing the batch to
\* insert_ticks_batch and buffer.clear(): the call is an ordinary
\* synchronous call, not awaited.
WriteSuspends == FALSE

\* The batch handed to insert_ticks_batch: the buffer itself.
FlushBatch(buf) == buf

\* save_buffer without buffer.clear().
BufferAfterFlushKept(buf, raised) == buf

\* The buffer after the try block: cleared, unless the call raised and
\* clear() was skipped.
BufferAfterFlush(buf, raised) == IF raised THEN buf ELSE <<>>

FlushLoopTest(run) == IF run THEN "Sleeping" ELSE "Stopped"

SaveBufferStart ==
    /\ flushPc = "Created"
    /\ \A t \in Tasks : Started(t)
    /\ flushPc' = FlushLoopTest(running)
    /\ UNCHANGED <<symbols, invalidUri, running, delays, buffer, pc, wait,
                   runPc, rows, writes, recv, nrecv, prevWait, appended,
                   otherVars>>

\* asyncio.sleep(2) returns: an empty buffer is skipped, else the batch is
\* written and the buffer cleared; then the loop test.
SaveBufferWake ==
    /\ flushPc \in {"Sleeping", "Writing"}
    /\ IF flushPc = "Writing"
       THEN /\ buffer' = <<>>
            /\ flushPc' = FlushLoopTest(running)
            /\ UNCHANGED <<rows, writes>>
       ELSE IF buffer = <<>>
       THEN /\ flushPc' = FlushLoopTest(running)
            /\ UNCHANGED <<buffer, rows, writes>>
       ELSE \E ok \in BOOLEAN :
               /\ rows' = InsertTicksBatch(rows, FlushBatch(buffer), ok)
               /\ writes' = Append(writes, [batch |-> FlushBatch(buffer),
                                            ok |-> ok, by |-> "save_buffer"])
               /\ IF WriteSuspends
                  THEN /\ flushPc' = "Writing"
                       /\ UNCHANGED buffer
                  ELSE /\ buffer' = BufferAfterFlush(buffer,
                                                     InsertTicksBatchRaises(ok))
                       /\ flushPc' = FlushLoopTest(running)
    /\ UNCHANGED <<symbols, invalidUri, running, delays, pc, wait, runPc, recv,
                   nrecv, prevWait, appended,
                   otherVars>>

(***************************************************************************)
(* Collector.run and the signal handler.                                   *)
(***************************************************************************)
\* run up to `await asyncio.gather(*tasks, save_task)`: the flag is raised,
\* one connect_symbol task per entry of self.symbols and the save_buffer
\* task are created.
RunStart ==
    /\ runPc = "NotStarted"
    /\ running' = TRUE
    /\ pc' = [t \in Tasks |-> "Disconnected"]
    /\ flushPc' = "Created"
    /\ runPc' = "Gather"
    /\ UNCHANGED <<symbols, invalidUri, delays, buffer, wait, rows, writes,
                   recv, nrecv, prevWait, appended,
                   otherVars>>

\* A wait that returns when the first task has returned.
FirstTaskDone == (\E t \in Tasks : pc[t] = "Stopped") \/ flushPc = "Stopped"

\* gather returns when every task it was given has returned (no task can
\* raise: each catches Exception around everything that may).
GatherDone == (\A t \in Tasks : pc[t] = "Stopped") /\ flushPc = "Stopped"

\* The finally block of run: the final save, then run returns.
RunFinish ==
    /\ runPc = "Gather"
    /\ GatherDone
    /\ runPc' = "Returned"
    /\ IF buffer # <<>>
       THEN \E ok \in BOOLEAN :
               /\ rows' = InsertTicksBatch(rows, buffer, ok)
               /\ writes' = Append(writes, [batch |-> buffer, ok |-> ok,
                                            by |-> "run"])
       ELSE UNCHANGED <<rows, writes>>
    /\ UNCHANGED <<symbols, invalidUri, running, delays, buffer, pc, wait,
                   flushPc, recv, nrecv, prevWait, appended,
                   otherVars>>

\* _signal_handler: SIGINT or SIGTERM while the collector runs.
Signal ==
    /\ running
    /\ running' = FALSE
    /\ UNCHANGED <<symbols, invalidUri, delays, buffer, pc, wait, flushPc,
                   runPc, rows, writes, recv, nrecv, prevWait, appended,
                   otherVars>>

Next ==
    \/ RunStart
    \/ Signal
    \/ SaveBufferStart
    \/ SaveBufferWake
    \/ RunFinish
    \/ \E t \in Tasks : TaskStart(t)
    \/ \E t \in Tasks : ConnectOk(t)
    \/ \E t \in Tasks : ConnectFail(t)
    \/ \E t \in Tasks, m \in Messages : Receive(t, m)
    \/ \E t \in Tasks : ConnectionLost(t)
    \/ \E t \in Tasks : BackoffWake(t)

Spec == Init /\ [][Next]_vars

(***************************************************************************)
(* Properties of the reconnect state machine.                              *)
(***************************************************************************)
\* Task t goes to sleep in its backoff wait in this step.
StartsWait(t) == wait[t] = 0 /\ wait'[t] > 0

\* Some task of symbol s resumes from its backoff wait in this step.
WakesFor(s) ==
    \E t \in Tasks : symbols[t] = s /\ wait[t] > 0 /\ wait'[t] = 0

\* Some task of symbol s enters Connected in this step.
ConnectsFor(s) ==
    \E t \in Tasks :
        symbols[t] = s /\ pc[t] = "Connecting" /\ pc'[t] = "Connected"

\* C1: the waits of a Feed Connection with no successful connection in
\* between are 1, 2, 4, 8, 16, 32, 60, 60, ...: each wait is the start
\* value when it is the first since the task's start or since its last
\* successful connection, and min(2 * previous wait, 60) otherwise.
C1_BackoffSequence ==
    [][\A t \in Tasks :
          StartsWait(t) =>
              wait'[t] = IF prevWait[t] = 0
                         THEN INITIAL_RECONNECT_DELAY
                         ELSE Min(2 * prevWait[t], MAX_RECONNECT_DELAY)]_vars

\* C2: every delay is between 1 and 60, and a step changes a delay only
\* by doubling it (capped at 60) when a backoff wait of that symbol ends,
\* or by resetting it to 1 when a connection of that symbol is entered.
C2_DelayChanges ==
    /\ [](\A s \in SymbolSet :
             delays[s] >= INITIAL_RECONNECT_DELAY
             /\ delays[s] <= MAX_RECONNECT_DELAY)
    /\ [][\A s \in SymbolSet :
             delays'[s] # delays[s] =>
                 \/ WakesFor(s)
                    /\ delays'[s] = Min(2 * delays[s], MAX_RECONNECT_DELAY)
                 \/ ConnectsFor(s)
                    /\ delays'[s] = INITIAL_RECONNECT_DELAY]_vars

\* C3: the Collector runs one Feed Connection task per distinct normalized
\* symbol: no two of its tasks are for the same symbol.
C3_OneTaskPerSymbol ==
    \A t1, t2 \in Tasks :
        (pc[t1] # "NotStarted" /\ pc[t2] # "NotStarted"
         /\ symbols[t1] = symbols[t2]) => t1 = t2

\* C4: a connection attempt that fails with an invalid address takes the
\* task to Stopped with no backoff wait, leaves every delay as it is and
\* leaves every other task, the flush task and the running flag alone; a
\* Stopped task makes no further attempt.
C4_InvalidUriStops ==
    [][\A t \in Tasks :
          /\ (pc[t] = "Connecting" /\ symbols[t] \in invalidUri
              /\ pc'[t] # "Connecting") =>
                 /\ pc'[t] = "Stopped"
                 /\ wait'[t] = 0
                 /\ delays' = delays
                 /\ \A u \in Tasks \ {t} : pc'[u] = pc[u] /\ wait'[u] = wait[u]
                 /\ flushPc' = flushPc
                 /\ running' = running
          /\ pc[t] = "Stopped" => pc'[t] = "Stopped"]_vars

\* A task stopped on its invalid address while the collector runs on: the
\* other symbol is connected and the flush task is in its sleep.
C4_Witness ==
    \E t, u \in Tasks :
        /\ symbols[t] \in invalidUri /\ pc[t] = "Stopped"
        /\ running
        /\ delays[symbols[t]] = INITIAL_RECONNECT_DELAY
        /\ pc[u] = "Connected"
        /\ flushPc = "Sleeping"

(***************************************************************************)
(* Properties of the buffer and its flushes.                               *)
(***************************************************************************)
Range(q) == {q[i] : i \in 1..Len(q)}

\* The ticks handed to insert_ticks_batch in the calls q.
Handed(q) == UNION {Range(q[i].batch) : i \in 1..Len(q)}

\* A message is taken from a socket in this step.
Receives == nrecv' = nrecv + 1

\* C5: every message received on a Connected connection is passed to the
\* handler, and every trade event adds exactly one tick to the buffer.
C5_EveryTradeBuffered ==
    [][Receives =>
          /\ recv'.handled
          /\ IsTradeEvent(recv'.msg) =>
                 /\ Len(buffer') = Len(buffer) + 1
                 /\ buffer'[Len(buffer')].seq = nrecv']_vars

\* The ticks of q that task t appended are in the order of their receipt.
InReceiveOrder(q, t) ==
    \A i, j \in 1..Len(q) :
        (i < j /\ q[i].conn = t /\ q[j].conn = t) => q[i].seq < q[j].seq

\* C6: in the buffer and in every batch handed to storage, the ticks of one
\* connection are in the order in which their messages were received.
C6_PerConnectionOrder ==
    \A t \in Tasks :
        /\ InReceiveOrder(buffer, t)
        /\ \A i \in 1..Len(writes) : InReceiveOrder(writes[i].batch, t)

\* Two ticks of one connection are in one batch written by the flush task
\* while another connection is in its backoff wait.
C6_Witness ==
    \E i \in 1..Len(writes), t, u \in Tasks :
        /\ writes[i].by = "save_buffer"
        /\ Len(writes[i].batch) = 2
        /\ \A k \in 1..2 : writes[i].batch[k].conn = t
        /\ u # t /\ wait[u] > 0

\* C7: a tick leaves the buffer only in a step after which it is part of a
\* batch handed to storage.
C7_FlushAtomic ==
    [][\A i \in 1..Len(buffer) :
          buffer[i] \notin Range(buffer') => buffer[i] \in Handed(writes')]_vars

\* A tick was appended after a flush by the flush task, by a connection
\* that was connected all along.
C7_Witness ==
    /\ Len(writes) = 1 /\ writes[1].by = "save_buffer"
    /\ Len(buffer) = 1
    /\ buffer[1].conn = writes[1].batch[1].conn
    /\ pc[buffer[1].conn] = "Connected"
    /\ flushPc = "Sleeping"

\* The flush task writes in this step.
FlushWrites ==
    /\ Len(writes') = Len(writes) + 1
    /\ writes'[Len(writes')].by = "save_buffer"

\* C8: a scheduled flush that finds a non-empty buffer makes one batched
\* write of exactly the buffer's ticks and leaves the buffer empty; one
\* that finds the buffer empty writes nothing.
C8_FlushWritesBuffer ==
    /\ [](\A i \in 1..Len(writes) : writes[i].batch # <<>>)
    /\ [][/\ FlushWrites =>
                /\ buffer # <<>>
                /\ writes'[Len(writes')].batch = buffer
                /\ SubSeq(writes', 1, Len(writes)) = writes
                /\ buffer' = <<>>
          /\ (flushPc = "Sleeping" /\ flushPc' = "Stopped") =>
                IF buffer = <<>> THEN writes' = writes /\ buffer' = <<>>
                ELSE FlushWrites]_vars

\* The flush task has written a batch of two ticks and the buffer is empty.
C8_Witness ==
    /\ buffer = <<>>
    /\ \E i \in 1..Len(writes) :
          writes[i].by = "save_buffer" /\ Len(writes[i].batch) = 2

\* C9: when the write of a scheduled flush fails, the buffer no longer
\* holds the ticks of that batch after the flush, and no later call hands
\* any of them to storage again.
C9_FailedBatchDropped ==
    /\ [](\A i, j \in 1..Len(writes) :
             (i < j /\ ~writes[i].ok /\ writes[i].by = "save_buffer") =>
                 Range(writes[i].batch) \cap Range(writes[j].batch) = {})
    /\ [][(FlushWrites /\ ~writes'[Len(writes')].ok) =>
             Range(writes'[Len(writes')].batch) \cap Range(buffer') = {}]_vars

\* A scheduled flush failed, and a later flush wrote another batch.
C9_Witness ==
    /\ Len(writes) = 2
    /\ ~writes[1].ok /\ writes[1].by = "save_buffer"
    /\ writes[2].ok /\ writes[2].by = "save_buffer"
    /\ rows # {}

\* The calls of insert_ticks_batch made by run's finally block.
FinalWrites == {i \in 1..Len(writes) : writes[i].by = "run"}

\* C10: the final flush is made by run, at most once and as the last write,
\* when every connection task and the flush task have ended, and exactly
\* when the buffer is not empty; when run has returned, every tick ever
\* appended to the buffer has been handed to insert_ticks_batch.
C10_FinalFlush ==
    /\ Cardinality(FinalWrites) <= 1
    /\ \A i \in FinalWrites :
          /\ i = Len(writes)
          /\ runPc = "Returned"
          /\ writes[i].batch = buffer
    /\ runPc = "Returned" =>
          /\ \A t \in Tasks : pc[t] = "Stopped"
          /\ flushPc = "Stopped"
          /\ (FinalWrites # {}) <=> (buffer # <<>>)
          /\ appended = {x.seq : x \in Handed(writes)}

\* run has returned after two ticks were appended and written in two
\* flushes; the finally block found the buffer empty.
C10_Witness ==
    /\ runPc = "Returned"
    /\ Cardinality(appended) = 2
    /\ Len(writes) = 2
    /\ buffer = <<>>

(***************************************************************************)
(* handle_trade as a function of the message: one call on a trade message  *)
(* whose fields are drawn from the values below, each field present or     *)
(* absent, followed by one flush of the buffer.                            *)
(***************************************************************************)
Absent == [absent |-> TRUE]
IsAbsent(v) == DOMAIN v = {"absent"}

\* The dict of the fields that are present.
DictOf(f) == [k \in {k \in DOMAIN f : ~IsAbsent(f[k])} |-> f[k]]

SymbolFields == {Absent, Str(<<"A">>)}
PriceFields == {Absent, Str(<<"7">>), Str(<<"x">>), Str(<<"-", "5">>), Num(0)}
SizeFields == {Absent, Str(<<"2">>), Str(<<"x">>), Str(<<"-", "1">>)}
TransactionTimes == {Absent, Num(0), Num(1000)}
EventTimes == {Absent, Num(0), Num(2000)}
TradeTimes == {Absent, Num(0), Num(3000)}

\* The trade messages given to handle_trade.
TradeMessages ==
    {Object(DictOf(f)) :
        f \in [e : {Str(TradeStr)}, s : SymbolFields, p : PriceFields,
               q : SizeFields, T : TransactionTimes, E : EventTimes,
               t : TradeTimes]}

\* The local offsets from UTC of the machine, in milliseconds.
LocalOffsets == {0, 3600000}

InitNormalize ==
    /\ CollectorInit
    /\ symbols = << <<"a">> >>
    /\ invalidUri = {}
    /\ rows = {}
    /\ nzMsg \in TradeMessages
    /\ nzNow \in Clock
    /\ nzTz \in LocalOffsets
    /\ nzOut = [done |-> FALSE]
    /\ ResamplerIdle
    /\ ProcessorIdle
    /\ DbIdle
    /\ AnalyticsIdle

\* handle_trade(nzMsg) on the empty buffer.
NormalizeCall ==
    /\ ~nzOut.done
    /\ nzOut' = [done |-> TRUE,
                 logged |-> HandleTradeLog(nzMsg, nzNow, nzTz),
                 raised |-> HandleTradeRaises(nzMsg)]
    /\ buffer' = HandleTradeBuffer(buffer, nzMsg, nzNow, nzTz,
                                   [conn |-> 1, seq |-> 1])
    /\ appended' = IF Len(buffer') > Len(buffer) THEN {1} ELSE {}
    /\ UNCHANGED <<symbols, invalidUri, running, delays, pc, wait, flushPc,
                   runPc, rows, writes, recv, nrecv, prevWait>>
    /\ UNCHANGED <<nzMsg, nzNow, nzTz, rsVars, prVars, dbVars, anVars>>

\* The flush of save_buffer on the buffer the call left.
NormalizeFlush ==
    /\ nzOut.done
    /\ buffer # <<>>
    /\ \E ok \in BOOLEAN :
          /\ rows' = InsertTicksBatch(rows, FlushBatch(buffer), ok)
          /\ writes' = Append(writes, [batch |-> FlushBatch(buffer),
                                       ok |-> ok, by |-> "save_buffer"])
          /\ buffer' = BufferAfterFlush(buffer, InsertTicksBatchRaises(ok))
    /\ UNCHANGED <<symbols, invalidUri, running, delays, pc, wait, flushPc,
                   runPc, recv, nrecv, prevWait, appended>>
    /\ UNCHANGED otherVars

NextNormalize == NormalizeCall \/ NormalizeFlush

SpecNormalize == InitNormalize /\ [][NextNormalize]_vars

(***************************************************************************)
(* AnalyticsEngine.resample_data on the DataFrame Database.get_ticks       *)
(* returns.  Timestamps are in milliseconds; a row of the DataFrame is     *)
(* [timestamp, price, size].                                               *)
(***************************************************************************)
\* The most rows of the ticks table in the resampled window.
MaxTicks == 3

TickTimes == {0, 500, 1000, 2000, 61000}
TickPrices == {99, 100, 101}
TickSizes == {1, 2}

TickRows == [timestamp : TickTimes, price : TickPrices, size : TickSizes]

RECURSIVE SortedFrames(_)
\* The DataFrames get_ticks returns for at most k distinct rows: the rows in
\* the order of sort_values('timestamp'), which leaves rows with the same
\* timestamp in any order.
SortedFrames(k) ==
    IF k = 0 THEN {<<>>}
    ELSE LET shorter == SortedFrames(k - 1)
         IN  shorter \cup
             {Append(f, row) :
                 <<f, row>> \in {<<f, row>> \in shorter \X TickRows :
                                  /\ Len(f) = k - 1
                                  /\ row \notin Range(f)
                                  /\ f # <<>> =>
                                        f[Len(f)].timestamp <= row.timestamp}}

\* freq_map.get(timeframe, '1T'), as the width of a bucket.
FreqWidth(tf) ==
    CASE tf = "1s" -> 1000
      [] tf = "1m" -> 60000
      [] tf = "5m" -> 300000
      [] OTHER -> 60000

\* A float of the resampled frame: a number or NaN.
Float(x) == [nan |-> FALSE, val |-> x]
NaN == [nan |-> TRUE, val |-> 0]
IsNaN(v) == v.nan

Maximum(S) == CHOOSE x \in S : \A y \in S : y <= x
Minimum(S) == CHOOSE x \in S : \A y \in S : x <= y

RECURSIVE SeqSum(_)
SeqSum(q) == IF q = <<>> THEN 0 ELSE Head(q) + SeqSum(Tail(q))

\* resample(freq).ohlc() taking the first price of a bin as its high.
ResampleBinHighFirst(frame, start, width) ==
    LET inBin == SelectSeq(frame, LAMBDA r : /\ start <= r.timestamp
                                             /\ r.timestamp < start + width)
        prices == {inBin[i].price : i \in 1..Len(inBin)}
    IN  IF inBin = <<>>
        THEN [timestamp |-> start, open |-> NaN, high |-> NaN, low |-> NaN,
              close |-> NaN, volume |-> Float(0)]
        ELSE [timestamp |-> start,
              open |-> Float(inBin[1].price),
              high |-> Float(inBin[1].price),
              low |-> Float(Minimum(prices)),
              close |-> Float(inBin[Len(inBin)].price),
              volume |-> Float(SeqSum([i \in 1..Len(inBin) |-> inBin[i].size]))]

\* One row of resample(freq).ohlc() joined with resample(freq).sum(): the
\* bin that starts at `start`, from the rows of the frame that fall in it,
\* in the order of the frame.  An empty bin has NaN prices and volume 0.
ResampleBin(frame, start, width) ==
    LET inBin == SelectSeq(frame, LAMBDA r : /\ start <= r.timestamp
                                             /\ r.timestamp < start + width)
        prices == {inBin[i].price : i \in 1..Len(inBin)}
    IN  IF inBin = <<>>
        THEN [timestamp |-> start, open |-> NaN, high |-> NaN, low |-> NaN,
              close |-> NaN, volume |-> Float(0)]
        ELSE [timestamp |-> start,
              open |-> Float(inBin[1].price),
              high |-> Float(Maximum(prices)),
              low |-> Float(Minimum(prices)),
              close |-> Float(inBin[Len(inBin)].price),
              volume |-> Float(SeqSum([i \in 1..Len(inBin) |-> inBin[i].size]))]

\* result.dropna() skipped.
DropNaKeepsAll(bars) == bars

\* result.dropna(): the rows without a NaN.
DropNa(bars) ==
    SelectSeq(bars, LAMBDA b : \A c \in {"open", "high", "low", "close", "volume"} :
                                  ~IsNaN(b[c]))

\* AnalyticsEngine.resample_data(df, timeframe): the bins from the one of
\* the first row to the one of the last, each `width` long and starting at
\* a multiple of it, then dropna.
ResampleData(frame, tf) ==
    IF frame = <<>> THEN <<>>
    ELSE LET width == FreqWidth(tf)
             times == {frame[i].timestamp : i \in 1..Len(frame)}
             first == Minimum(times) \div width
             last == Maximum(times) \div width
         IN  DropNa([i \in 1..(last - first + 1) |->
                        ResampleBin(frame, (first + i - 1) * width, width)])

InitResample ==
    /\ CollectorInit
    /\ symbols = << <<"a">> >>
    /\ invalidUri = {}
    /\ rows = {}
    /\ NormalizerIdle
    /\ rsTicks \in SortedFrames(MaxTicks)
    /\ rsTf \in Timeframes
    /\ rsOut = [done |-> FALSE]
    /\ ProcessorIdle
    /\ DbIdle
    /\ AnalyticsIdle

ResampleCall ==
    /\ ~rsOut.done
    /\ rsOut' = [done |-> TRUE, bars |-> ResampleData(rsTicks, rsTf)]
    /\ UNCHANGED <<collectorVars, nzVars, rsTicks, rsTf, prVars, dbVars, anVars>>

NextResample == ResampleCall

SpecResample == InitResample /\ [][NextResample]_vars

(***************************************************************************)
(* DataProcessor: one process_timeframe task per timeframe, each running   *)
(* aggregation cycles over the ticks table.  A cycle has no suspension     *)
(* point before its sleep, so it is one step.                              *)
(***************************************************************************)
\* The most cycles the processor runs, all timeframes together.
MaxCycles == 3

\* timedelta(hours=1), in milliseconds.
WindowLength == 3600000

\* Database.get_symbols: the distinct symbols of the ticks table.
GetSymbols(tbl) == {r.row.symbol : r \in tbl}

\* The lists a query without ORDER BY may return for a set.
ListsOf(S) ==
    {q \in [1..Cardinality(S) -> S] : \A i, j \in 1..Cardinality(S) :
                                          i # j => q[i] # q[j]}

\* get_ticks returning the buffered ticks of the collector as well.
GetTicksAndBuffer(tbl, symbol, startTime, endTime) ==
    {r.row : r \in {r \in tbl : /\ symbol # <<>> => r.row.symbol = symbol
                                /\ startTime <= r.row.timestamp
                                /\ r.row.timestamp <= endTime}}
    \cup {buffer[i].tick : i \in {i \in 1..Len(buffer) :
                                     /\ symbol # <<>> => buffer[i].tick.symbol = symbol
                                     /\ startTime <= buffer[i].tick.timestamp
                                     /\ buffer[i].tick.timestamp <= endTime}}

\* The rows Database.get_ticks selects: the symbol filter is skipped for
\* a symbol that is false (the empty string).
GetTicks(tbl, symbol, startTime, endTime) ==
    {r.row : r \in {r \in tbl : /\ symbol # <<>> => r.row.symbol = symbol
                                /\ startTime <= r.row.timestamp
                                /\ r.row.timestamp <= endTime}}

\* The DataFrames get_ticks may return for these rows: sorted by
\* timestamp, rows of one timestamp in any order.
FramesOf(S) ==
    {q \in ListsOf(S) : \A i, j \in 1..Len(q) :
                            i < j => q[i].timestamp <= q[j].timestamp}

\* ohlc_id = f"{symbol}_{timeframe}_{timestamp.isoformat()}"
OhlcId(symbol, tf, timestamp) == <<symbol, tf, timestamp>>

\* insert_ohlc keeping the row the table has for the key.
InsertOhlcKeepsOld(table, symbol, tf, bar, ok) ==
    IF ~ok \/ \E r \in table : r.id = OhlcId(symbol, tf, bar.timestamp) THEN table
    ELSE table \cup
         {[id |-> OhlcId(symbol, tf, bar.timestamp),
           row |-> [symbol |-> symbol, timeframe |-> tf,
                    timestamp |-> bar.timestamp, open |-> bar.open,
                    high |-> bar.high, low |-> bar.low, close |-> bar.close,
                    volume |-> bar.volume]]}

\* Database.insert_ohlc: merge and commit, or log and roll back (ok = FALSE).
InsertOhlc(table, symbol, tf, bar, ok) ==
    IF ~ok THEN table
    ELSE {r \in table : r.id # OhlcId(symbol, tf, bar.timestamp)} \cup
         {[id |-> OhlcId(symbol, tf, bar.timestamp),
           row |-> [symbol |-> symbol, timeframe |-> tf,
                    timestamp |-> bar.timestamp, open |-> bar.open,
                    high |-> bar.high, low |-> bar.low, close |-> bar.close,
                    volume |-> bar.volume]]}

\* Whether insert_ohlc lets an exception reach its caller: its
\* `except Exception` catches all of them.
InsertOhlcRaises(ok) == FALSE

RECURSIVE InsertBars(_, _, _, _, _)
\* The loop over ohlc_df.iterrows(); the inserts of the bars whose
\* timestamp is in `failing` fail.
InsertBars(table, symbol, tf, bars, failing) ==
    IF bars = <<>> THEN table
    ELSE InsertBars(InsertOhlc(table, symbol, tf, Head(bars),
                               Head(bars).timestamp \notin failing),
                    symbol, tf, Tail(bars), failing)

RECURSIVE CycleTables(_, _, _, _, _, _, _)
\* The try block of process_timeframe for the symbols syms, in order: the
\* ohlc tables it may leave.  The processing of symbol number failAt
\* raises (never, when failAt = 0; get_symbols raising is failAt = 1),
\* which ends the loop over the symbols.
CycleTables(table, syms, tf, now, tbl, failAt, failing) ==
    IF syms = <<>> \/ failAt = 1 THEN {table}
    ELSE LET ticks == GetTicks(tbl, Head(syms), now - WindowLength, now)
         IN  IF ticks = {}
             THEN CycleTables(table, Tail(syms), tf, now, tbl, failAt - 1, failing)
             ELSE UNION {CycleTables(InsertBars(table, Head(syms), tf,
                                                ResampleData(f, tf), failing),
                                     Tail(syms), tf, now, tbl, failAt - 1, failing) :
                            f \in FramesOf(ticks)}

\* The symbols the loop of a cycle reaches: all of them, or those up to
\* the one whose processing raises.
Fetched(syms, failAt) ==
    IF failAt = 0 THEN syms ELSE SubSeq(syms, 1, Min(failAt, Len(syms)))

\* The sleep of the normal cadence whatever the cycle did.
SleepAfterCadence(tf, raised) ==
    CASE tf = "1s" -> 1
      [] tf = "1m" -> 60
      [] tf = "5m" -> 300
      [] OTHER -> 60

\* The sleep that ends a cycle, in seconds.
SleepAfter(tf, raised) ==
    IF raised THEN 5
    ELSE CASE tf = "1s" -> 1
           [] tf = "1m" -> 60
           [] tf = "5m" -> 300
           [] OTHER -> 60

\* The loop test of process_timeframe.
ProcLoopTest(run) == IF run THEN "Cycle" ELSE "Stopped"

\* The ticks tables the processor finds, and the times of its cycles.
TickTables ==
    LET row(sym, ts, p, sz) ==
            LET tick == [symbol |-> sym, timestamp |-> ts, price |-> p, size |-> sz]
            IN  [id |-> TickId(tick), row |-> tick]
    IN  { {},
          {row(<<"a">>, 500, 98, 1), row(<<"a">>, 3600500, 100, 1),
           row(<<"a">>, 3600500, 101, 2), row(<<"b">>, 3600700, 50, 1)},
          {row(<<>>, 3600500, 7, 1), row(<<"a">>, 3600700, 100, 1)},
          {row(<<"a">>, 3600500, 100, 1), row(<<"a">>, 3601000, 102, 1)} }

\* datetime.utcnow() at a cycle; at the later time the window starts
\* between the ticks of one minute.
ProcClock == {3601000, 7200600}

InitProc ==
    /\ CollectorInit
    /\ symbols = << <<"a">> >>
    /\ invalidUri = {}
    /\ rows \in TickTables
    /\ NormalizerIdle
    /\ ResamplerIdle
    /\ ProcessorIdle
    /\ DbIdle
    /\ AnalyticsIdle

\* The cycles run so far.
CyclesRun == tfCycles["1s"] + tfCycles["1m"] + tfCycles["5m"]

\* DataProcessor.run up to `await asyncio.gather(*tasks)`.
ProcRunStart ==
    /\ procPc = "NotStarted"
    /\ procRunning' = TRUE
    /\ procPc' = "Gather"
    /\ tfPc' = [tf \in Timeframes |-> "Created"]
    /\ UNCHANGED <<collectorVars, nzVars, rsVars, dbVars, anVars, tfSleep, tfCycles, cycleLog, ohlc,
                   signalled>>

\* process_timeframe(tf) from its start, or from the end of its sleep, to
\* its next sleep or its return; run returns with its last task.
ProcessTimeframe(tf) ==
    /\ procPc = "Gather"
    /\ tfPc[tf] \in {"Created", "Sleeping"}
    /\ IF ProcLoopTest(procRunning) = "Stopped"
       THEN /\ tfPc' = [tfPc EXCEPT ![tf] = "Stopped"]
            /\ tfSleep' = [tfSleep EXCEPT ![tf] = 0]
            /\ procPc' = IF \A u \in Timeframes : tfPc'[u] = "Stopped"
                         THEN "Returned" ELSE procPc
            /\ UNCHANGED <<tfCycles, cycleLog, ohlc>>
       ELSE /\ CyclesRun < MaxCycles
            /\ \E now \in {c \in ProcClock : c >= cycleLog.now},
                  syms \in ListsOf(GetSymbols(rows)) :
                 \E failAt \in 0..(IF syms = <<>> THEN 1 ELSE Len(syms)),
                    failing \in SUBSET {r.row.timestamp - (r.row.timestamp % FreqWidth(tf)) :
                                           r \in {r \in rows :
                                                     /\ now - WindowLength <= r.row.timestamp
                                                     /\ r.row.timestamp <= now}} :
                    /\ ohlc' \in CycleTables(ohlc, syms, tf, now, rows, failAt, failing)
                    /\ cycleLog' = [tf |-> tf, syms |-> syms, failAt |-> failAt,
                                    fetched |-> Fetched(syms, failAt), now |-> now,
                                    failing |-> failing]
                    /\ tfSleep' = [tfSleep EXCEPT ![tf] = SleepAfter(tf, failAt >= 1)]
            /\ tfPc' = [tfPc EXCEPT ![tf] = "Sleeping"]
            /\ tfCycles' = [tfCycles EXCEPT ![tf] = @ + 1]
            /\ UNCHANGED procPc
    /\ UNCHANGED <<collectorVars, nzVars, rsVars, dbVars, anVars, procRunning, signalled>>

\* SIGINT or SIGTERM while the processor runs: the handler BinanceCollector installed clears the
\* collector's flag; DataProcessor installs none and nothing writes its
\* flag.
ProcSignal ==
    /\ procPc = "Gather"
    /\ ~signalled
    /\ signalled' = TRUE
    /\ running' = FALSE
    /\ UNCHANGED <<symbols, invalidUri, delays, buffer, pc, wait, flushPc,
                   runPc, rows, writes, recv, nrecv, prevWait, appended>>
    /\ UNCHANGED <<nzVars, rsVars, dbVars, anVars, procRunning, procPc, tfPc, tfSleep, tfCycles,
                   cycleLog, ohlc>>

NextProc ==
    \/ ProcRunStart
    \/ \E tf \in Timeframes : ProcessTimeframe(tf)
    \/ ProcSignal

SpecProc == InitProc /\ [][NextProc]_vars

(***************************************************************************)
(* The methods of Database called on their own, any number of times, on a  *)
(* database that starts empty.                                             *)
(***************************************************************************)
\* The longest batch written.
MaxBatch == 2

\* The ticks written: two of one symbol and instant, one of another.
DbTicks ==
    { [symbol |-> <<"a">>, timestamp |-> 1000, price |-> 100, size |-> 1],
      [symbol |-> <<"a">>, timestamp |-> 1000, price |-> 101, size |-> 1],
      [symbol |-> <<"b">>, timestamp |-> 2000, price |-> 50, size |-> 2] }

RECURSIVE BatchesUpTo(_)
\* The batches of at most k ticks, as lists of buffer entries.
BatchesUpTo(k) ==
    IF k = 0 THEN {<<>>}
    ELSE LET shorter == BatchesUpTo(k - 1)
         IN  shorter \cup
             {Append(b, [tick |-> t, conn |-> 0, seq |-> 0]) :
                 <<b, t>> \in {<<b, t>> \in shorter \X DbTicks : Len(b) = k - 1}}

\* The keys and the bars upserted.
DbBarKeys ==
    { [symbol |-> <<"a">>, tf |-> "1m", timestamp |-> 0],
      [symbol |-> <<"a">>, tf |-> "1m", timestamp |-> 60000],
      [symbol |-> <<"a">>, tf |-> "1s", timestamp |-> 0],
      [symbol |-> <<"b">>, tf |-> "1m", timestamp |-> 0] }

DbBarValues ==
    { [open |-> Float(100), high |-> Float(100), low |-> Float(100),
       close |-> Float(100), volume |-> Float(1)],
      [open |-> Float(100), high |-> Float(101), low |-> Float(99),
       close |-> Float(101), volume |-> Float(3)] }

InitDb ==
    /\ CollectorInit
    /\ symbols = << <<"a">> >>
    /\ invalidUri = {}
    /\ rows = {}
    /\ NormalizerIdle
    /\ ResamplerIdle
    /\ ProcessorIdle
    /\ DbIdle
    /\ AnalyticsIdle

\* db.insert_ticks_batch(batch); had is the table before the call.
InsertTicksBatchCall ==
    /\ \E batch \in BatchesUpTo(MaxBatch), ok \in BOOLEAN :
          /\ rows' = InsertTicksBatch(rows, batch, ok)
          /\ dbCall' = [op |-> "insert_ticks_batch", batch |-> batch, ok |-> ok,
                        raised |-> InsertTicksBatchRaises(ok), had |-> rows]
    /\ UNCHANGED <<symbols, invalidUri, running, delays, buffer, pc, wait, flushPc,
                   runPc, writes, recv, nrecv, prevWait, appended>>
    /\ UNCHANGED <<nzVars, rsVars, prVars, anVars>>

\* db.insert_ohlc(symbol, timestamp, timeframe, open, ...); had is the
\* table before the call.
InsertOhlcCall ==
    /\ \E key \in DbBarKeys, val \in DbBarValues, ok \in BOOLEAN :
          LET bar == [timestamp |-> key.timestamp, open |-> val.open,
                      high |-> val.high, low |-> val.low, close |-> val.close,
                      volume |-> val.volume]
          IN  /\ ohlc' = InsertOhlc(ohlc, key.symbol, key.tf, bar, ok)
              /\ dbCall' = [op |-> "insert_ohlc", symbol |-> key.symbol,
                            tf |-> key.tf, bar |-> bar, ok |-> ok,
                            raised |-> InsertOhlcRaises(ok), had |-> ohlc]
    /\ UNCHANGED <<collectorVars, nzVars, rsVars, anVars>>
    /\ UNCHANGED <<procRunning, procPc, tfPc, tfSleep, tfCycles, cycleLog, signalled>>

NextDb == InsertTicksBatchCall \/ InsertOhlcCall

SpecDb == InitDb /\ [][NextDb]_vars

(***************************************************************************)
(* The resampler called on its own, or the processor run: the bars of      *)
(* both.                                                                   *)
(***************************************************************************)
InitBars == InitResample \/ InitProc

\* One of the two runs at a time.
NextBars ==
    \/ ProcessorIdle /\ ResampleCall
    \/ ResamplerIdle /\ ProcRunStart
    \/ \E tf \in Timeframes : ResamplerIdle /\ ProcessTimeframe(tf)
    \/ ResamplerIdle /\ ProcSignal

SpecBars == InitBars /\ [][NextBars]_vars

(***************************************************************************)
(* Termination.  The event loop runs every task that is ready and every    *)
(* timer fires; an attempt to connect ends, in success or in an error.     *)
(* Nothing makes the exchange send a message or close a connection, and    *)
(* nothing makes the operator send a signal.                               *)
(***************************************************************************)
\* The task numbers of all configurations.
AllTasks == UNION {1..Len(NormalizedSymbols(raw)) : raw \in RawConfigs}

CollectorFairness ==
    /\ WF_vars(RunStart)
    /\ WF_vars(SaveBufferStart)
    /\ WF_vars(SaveBufferWake)
    /\ WF_vars(RunFinish)
    /\ \A t \in AllTasks :
          /\ WF_vars(t \in Tasks /\ TaskStart(t))
          /\ WF_vars(t \in Tasks /\ BackoffWake(t))
          /\ WF_vars(t \in Tasks /\ (ConnectOk(t) \/ ConnectFail(t)))

SpecLive == Init /\ [][Next]_vars /\ CollectorFairness

\* C11: once the stop signal has cleared the running flag, run reaches its
\* final flush and returns, wherever the connection tasks and the flush
\* task are suspended.
C11_StopTerminates == (runPc = "Gather" /\ ~running) ~> runPc = "Returned"

(***************************************************************************)
(* Properties of the receive loop and of handle_trade.                     *)
(***************************************************************************)
\* C13: no message a connection has taken from its socket is discarded
\* without being passed to handle_trade, the stop signal notwithstanding.
C13_NoMessageDiscarded == [][Receives => recv'.handled]_vars

\* The message is a JSON object whose event kind is not 'trade'.
NotTrade(m) == m.body = "object" /\ ~IsTradeEvent(m)

\* C14: a message passed to handle_trade whose event kind is not 'trade'
\* leaves the buffer, the state of every connection and every delay as
\* they were, and no error is raised or logged.
C14_NonTradeIgnored ==
    [][(Receives /\ recv'.handled /\ NotTrade(recv'.msg)) =>
          /\ buffer' = buffer
          /\ pc' = pc
          /\ wait' = wait
          /\ delays' = delays
          /\ recv'.logged = "none"]_vars

\* A message of another event kind was handled after a tick was buffered.
C14_Witness ==
    /\ recv.handled
    /\ NotTrade(recv.msg)
    /\ Len(buffer) = 1
    /\ nrecv = 2
    /\ pc[recv.conn] = "Connected"

\* C15: a message whose body cannot be decoded is discarded alone: the
\* buffer, the state of every connection and every delay are as they were,
\* and the next message on the same connection is handled, a well-formed
\* trade among them adding its tick to the buffer.
C15_DecodeErrorDiscarded ==
    /\ [][(Receives /\ recv'.handled /\ recv'.msg = Malformed) =>
             /\ buffer' = buffer
             /\ pc' = pc
             /\ wait' = wait
             /\ delays' = delays
             /\ recv'.logged = "JSONDecodeError"]_vars
    /\ [][(Receives /\ recv.handled /\ recv.msg = Malformed
              /\ recv'.conn = recv.conn /\ running) =>
             /\ recv'.handled
             /\ recv'.msg = GoodTrade => Len(buffer') = Len(buffer) + 1]_vars
    /\ [](recv.handled /\ recv.msg = Malformed /\ running /\ nrecv = 1
            /\ pc[recv.conn] = "Connected"
            => ENABLED Receive(recv.conn, GoodTrade))

\* An undecodable message was handled after a tick was buffered, and the
\* connection is still Connected.
C15_Witness ==
    /\ recv.handled
    /\ recv.msg = Malformed
    /\ Len(buffer) = 1
    /\ nrecv = 2
    /\ running
    /\ pc[recv.conn] = "Connected"

(***************************************************************************)
(* Properties of the normalizer.                                           *)
(***************************************************************************)
\* The ticks the call of handle_trade put in the buffer, flushed or not.
Produced == {x.tick : x \in Range(buffer) \cup Handed(writes)}

\* The field is present and float() does not parse it.
Unparsable(data, key) == key \in DOMAIN data /\ ~PyFloat(data[key]).ok

\* C16: for every trade message in which the price, the size, the symbol
\* or all three timestamp fields are missing, handle_trade logs no error
\* and buffers one tick, with price 0 for a missing price, size 0 for a
\* missing size and the empty symbol for a missing symbol.
C16_MissingFieldsDefault ==
    LET data == nzMsg.data
    IN  (/\ nzOut.done
         /\ \/ {"p", "q", "s"} \ DOMAIN data # {}
            \/ {"T", "E", "t"} \cap DOMAIN data = {})
        => /\ nzOut.logged = "none"
           /\ ~nzOut.raised
           /\ Cardinality(Produced) = 1
           /\ \A tick \in Produced :
                 /\ "p" \notin DOMAIN data => tick.price = 0
                 /\ "q" \notin DOMAIN data => tick.size = 0
                 /\ "s" \notin DOMAIN data => tick.symbol = <<>>

\* C17: for every trade message whose price or size is present and not
\* parsable as a number, one tick is buffered, with 0 in place of the
\* malformed field.
C17_MalformedNumberDefaults ==
    LET data == nzMsg.data
    IN  (nzOut.done /\ (Unparsable(data, "p") \/ Unparsable(data, "q")))
        => /\ Cardinality(Produced) = 1
           /\ \A tick \in Produced :
                 /\ Unparsable(data, "p") => tick.price = 0
                 /\ Unparsable(data, "q") => tick.size = 0

\* C18: every tick in the buffer and every row of the ticks table has a
\* non-negative price and a non-negative size.
C18_NonNegative ==
    /\ \A x \in Range(buffer) : x.tick.price >= 0 /\ x.tick.size >= 0
    /\ \A r \in rows : r.row.price >= 0 /\ r.row.size >= 0

\* The timestamp of the claim: the local time of the first field present
\* among T, E and t, the current time when none is.
FirstPresentTimestamp(data, now, tz) ==
    IF "T" \in DOMAIN data THEN FromTimestamp(data["T"].num, tz)
    ELSE IF "E" \in DOMAIN data THEN FromTimestamp(data["E"].num, tz)
    ELSE IF "t" \in DOMAIN data THEN FromTimestamp(data["t"].num, tz)
    ELSE now

\* C19: the timestamp of a tick is taken from the first field present in
\* the message, in the order T, E, t, whatever its value, and is the
\* current time only when none of the three is present.
C19_TimestampOrder ==
    \A tick \in Produced :
        tick.timestamp = FirstPresentTimestamp(nzMsg.data, nzNow, nzTz)

(***************************************************************************)
(* Properties of the resampler.                                            *)
(***************************************************************************)
\* The start of the bucket of width w that holds the instant ts.
BucketOf(ts, w) == ts - (ts % w)

RECURSIVE SizeSum(_)
\* The sum of the sizes of a set of rows.
SizeSum(S) ==
    IF S = {} THEN 0
    ELSE LET r == CHOOSE r \in S : TRUE
         IN  r.size + SizeSum(S \ {r})

\* The three ticks of the end-to-end scenario, and their bars at 1s.
ScenarioTicks ==
    << [timestamp |-> 0, price |-> 100, size |-> 1],
       [timestamp |-> 1000, price |-> 101, size |-> 2],
       [timestamp |-> 2000, price |-> 99, size |-> 1] >>

ScenarioBar(r) ==
    [timestamp |-> r.timestamp, open |-> Float(r.price), high |-> Float(r.price),
     low |-> Float(r.price), close |-> Float(r.price), volume |-> Float(r.size)]

\* C20: resampling yields exactly one bar per bucket that holds a tick and
\* none for a bucket without ticks; the buckets start at multiples of the
\* timeframe and every tick lies in exactly one of them; a bar's open is
\* the price of an earliest tick of its bucket, its close the price of a
\* latest one, high and low the extreme prices, volume the sum of the
\* sizes; and the three ticks of the scenario give their three bars at 1s.
C20_ResampleBars ==
    rsOut.done =>
        LET w == FreqWidth(rsTf)
            ticks == Range(rsTicks)
            bars == rsOut.bars
            starts == {BucketOf(r.timestamp, w) : r \in ticks}
        IN  /\ {bars[i].timestamp : i \in 1..Len(bars)} = starts
            /\ Len(bars) = Cardinality(starts)
            /\ \A i \in 1..Len(bars) : bars[i].timestamp % w = 0
            /\ \A r \in ticks :
                  Cardinality({i \in 1..Len(bars) :
                                  /\ bars[i].timestamp <= r.timestamp
                                  /\ r.timestamp < bars[i].timestamp + w}) = 1
            /\ \A i \in 1..Len(bars) :
                  LET in == {r \in ticks : BucketOf(r.timestamp, w) = bars[i].timestamp}
                      times == {r.timestamp : r \in in}
                      prices == {r.price : r \in in}
                  IN  /\ \A c \in {"open", "high", "low", "close", "volume"} :
                            ~IsNaN(bars[i][c])
                      /\ bars[i].open.val \in
                            {r.price : r \in {r \in in : r.timestamp = Minimum(times)}}
                      /\ bars[i].close.val \in
                            {r.price : r \in {r \in in : r.timestamp = Maximum(times)}}
                      /\ bars[i].high.val = Maximum(prices)
                      /\ bars[i].low.val = Minimum(prices)
                      /\ bars[i].volume.val = SizeSum(in)
            /\ (rsTicks = ScenarioTicks /\ rsTf = "1s") =>
                  bars = [i \in 1..3 |-> ScenarioBar(ScenarioTicks[i])]

\* The scenario was resampled at 1s.
C20_Witness ==
    /\ rsOut.done
    /\ rsTicks = ScenarioTicks
    /\ rsTf = "1s"
    /\ Len(rsOut.bars) = 3

\* The bar has numbers in all price fields, with low <= open, close <= high.
BarOrdered(b) ==
    /\ \A c \in {"open", "high", "low", "close"} : ~IsNaN(b[c])
    /\ b.low.val <= b.open.val /\ b.open.val <= b.high.val
    /\ b.low.val <= b.close.val /\ b.close.val <= b.high.val
    /\ b.low.val <= b.high.val

\* C21: every bar resample_data returns and every bar of the ohlc table
\* has low <= open <= high, low <= close <= high and low <= high.
C21_BarsOrdered ==
    /\ rsOut.done => \A i \in 1..Len(rsOut.bars) : BarOrdered(rsOut.bars[i])
    /\ \A r \in ohlc : BarOrdered(r.row)

\* The ohlc table holds a bar, written by a cycle, whose low is below its
\* high.
C21_Witness == \E r \in ohlc : r.row.low.val < r.row.high.val

\* C22: resampling is a function of the set of ticks and the timeframe:
\* every frame get_ticks may deliver for the same set of ticks, whatever
\* the order of the ticks of one timestamp, gives the same bars.
C22_ResampleDeterministic ==
    rsOut.done =>
        \A f \in FramesOf(Range(rsTicks)) : ResampleData(f, rsTf) = rsOut.bars

(***************************************************************************)
(* Properties of the aggregation loops.                                    *)
(***************************************************************************)
\* The task of timeframe tf, asleep, wakes and takes its step.
TimeframeSteps(tf) ==
    /\ tfPc[tf] = "Sleeping"
    /\ tfPc'[tf] # tfPc[tf] \/ tfCycles'[tf] # tfCycles[tf]

\* C12: after the stop signal, the step every aggregation loop takes from
\* its suspension point is its exit, and run returns with the last exit.
C12_StopObserved ==
    [][\A tf \in Timeframes :
          (signalled /\ TimeframeSteps(tf)) =>
              /\ tfPc'[tf] = "Stopped"
              /\ (\A u \in Timeframes : tfPc'[u] = "Stopped") => procPc' = "Returned"]_vars

(***************************************************************************)
(* Properties of the database.                                             *)
(***************************************************************************)
\* The row of the ohlc table is stored under the key of the last call.
UnderCalledKey(r) ==
    /\ r.row.symbol = dbCall.symbol
    /\ r.row.timeframe = dbCall.tf
    /\ r.row.timestamp = dbCall.bar.timestamp

\* The row the last call of insert_ohlc was to store.
CalledRow ==
    [symbol |-> dbCall.symbol, timeframe |-> dbCall.tf,
     timestamp |-> dbCall.bar.timestamp, open |-> dbCall.bar.open,
     high |-> dbCall.bar.high, low |-> dbCall.bar.low,
     close |-> dbCall.bar.close, volume |-> dbCall.bar.volume]

\* C23: the ohlc table holds at most one bar per (symbol, timeframe, open
\* time); an upsert of a bar equal to the stored one leaves the table as it
\* was, an upsert of a bar with other values puts the new values in place
\* of the stored ones, and no upsert changes a bar of another key.
C23_OhlcUpsert ==
    /\ \A r1, r2 \in ohlc :
          (/\ r1.row.symbol = r2.row.symbol
           /\ r1.row.timeframe = r2.row.timeframe
           /\ r1.row.timestamp = r2.row.timestamp) => r1 = r2
    /\ (dbCall.op = "insert_ohlc" /\ dbCall.ok) =>
          /\ (\E r \in dbCall.had : UnderCalledKey(r) /\ r.row = CalledRow)
                => ohlc = dbCall.had
          /\ {r.row : r \in {r \in ohlc : UnderCalledKey(r)}} = {CalledRow}
          /\ {r \in ohlc : ~UnderCalledKey(r)} = {r \in dbCall.had : ~UnderCalledKey(r)}

\* An upsert replaced a stored bar by one with other values, next to a bar
\* of another key.
C23_Witness ==
    /\ dbCall.op = "insert_ohlc"
    /\ dbCall.ok
    /\ \E r \in dbCall.had : UnderCalledKey(r) /\ r.row # CalledRow
    /\ \E r \in ohlc : ~UnderCalledKey(r)

\* The ticks of the batch of the last call of insert_ticks_batch.
CalledTicks == {dbCall.batch[i].tick : i \in 1..Len(dbCall.batch)}

\* C24: after a batch is written, the ticks table holds exactly one row for
\* each distinct tick of the batch and of the table before, whether or not
\* a tick was stored before or occurs more than once in the batch; writing
\* the same batch again leaves the table as it is.
C24_TickBatchIdempotent ==
    (dbCall.op = "insert_ticks_batch" /\ dbCall.ok) =>
        LET before == {r.row : r \in dbCall.had}
        IN  /\ {r.row : r \in rows} = before \cup CalledTicks
            /\ \A t \in before \cup CalledTicks :
                  Cardinality({r \in rows : r.row = t}) = 1
            /\ InsertTicksBatch(rows, dbCall.batch, TRUE) = rows

\* A batch holding twice a tick that was stored before was written, and the
\* table holds another tick as well.
C24_Witness ==
    /\ dbCall.op = "insert_ticks_batch"
    /\ dbCall.ok
    /\ Len(dbCall.batch) = 2
    /\ dbCall.batch[1].tick = dbCall.batch[2].tick
    /\ dbCall.batch[1].tick \in {r.row : r \in dbCall.had}
    /\ Cardinality(rows) = 2

(***************************************************************************)
(* Properties of the aggregation cycle.                                    *)
(***************************************************************************)
\* The symbol is one the loop of the last cycle reached.
WasFetched(symbol) ==
    \E j \in 1..Len(cycleLog.fetched) : cycleLog.fetched[j] = symbol

\* C25: in a cycle in which the processing of one symbol raises, every
\* symbol after the failing one is still fetched and processed.
C25_CycleContinues ==
    (cycleLog.tf # "none" /\ cycleLog.failAt >= 1) =>
        \A i \in 1..Len(cycleLog.syms) :
            i > cycleLog.failAt => WasFetched(cycleLog.syms[i])

\* The step is a cycle of the loop of timeframe tf.
CycleOf(tf) == tfCycles'[tf] = tfCycles[tf] + 1

\* C28: a cycle of a timeframe ends in a sleep of 1, 60 or 300 seconds for
\* 1s, 1m and 5m when nothing was raised and of 5 seconds when something
\* was; the step a sleeping loop takes while the flag is set is its next
\* cycle; a cycle changes nothing of the loops of the other timeframes.
C28_CycleWaits ==
    [][\A tf \in Timeframes :
          /\ CycleOf(tf) =>
                /\ tfPc'[tf] = "Sleeping"
                /\ tfSleep'[tf] = IF cycleLog'.failAt >= 1 THEN 5
                                  ELSE IF tf = "1s" THEN 1
                                  ELSE IF tf = "1m" THEN 60 ELSE 300
                /\ cycleLog'.tf = tf
                /\ \A u \in Timeframes \ {tf} :
                      /\ tfPc'[u] = tfPc[u]
                      /\ tfSleep'[u] = tfSleep[u]
                      /\ tfCycles'[u] = tfCycles[u]
          /\ (procRunning /\ TimeframeSteps(tf)) => CycleOf(tf)]_vars

\* The 1s loop ran a cycle that raised and then a clean one, while the 1m
\* loop sleeps after a cycle that raised and the 5m loop has not run.
C28_Witness ==
    /\ tfCycles["1s"] = 2
    /\ tfSleep["1s"] = 1
    /\ tfPc["1m"] = "Sleeping"
    /\ tfSleep["1m"] = 5
    /\ tfPc["5m"] = "Created"

(***************************************************************************)
(* The collector and the processor, each in its own thread with its own    *)
(* event loop (app.py); they share the database only.  Here one of the     *)
(* two runs while the other has not been started.                          *)
(***************************************************************************)
\* The collector is given two symbols, the processor a table of at most
\* two ticks.
InitTasks ==
    \/ Init /\ symbols = << <<"a">>, <<"b">> >>
    \/ InitProc /\ Cardinality(rows) <= 2

\* The messages the sockets deliver: a trade, one that cannot be decoded
\* and one whose price cannot be parsed.
TaskMessages == {GoodTrade, Malformed, BadPriceTrade}

\* Collector.run has not been called.
CollectorUnstarted == runPc = "NotStarted"

NextTasks ==
    \/ ProcessorIdle /\ rows = {} /\ RunStart
    \/ ProcessorIdle /\ Signal
    \/ ProcessorIdle /\ SaveBufferStart
    \/ ProcessorIdle /\ SaveBufferWake
    \/ ProcessorIdle /\ RunFinish
    \/ \E t \in Tasks : ProcessorIdle /\ TaskStart(t)
    \/ \E t \in Tasks : ProcessorIdle /\ ConnectOk(t)
    \/ \E t \in Tasks : ProcessorIdle /\ ConnectFail(t)
    \/ \E t \in Tasks, m \in TaskMessages : ProcessorIdle /\ Receive(t, m)
    \/ \E t \in Tasks : ProcessorIdle /\ ConnectionLost(t)
    \/ \E t \in Tasks : ProcessorIdle /\ BackoffWake(t)
    \/ CollectorUnstarted /\ ProcRunStart
    \/ \E tf \in Timeframes : CollectorUnstarted /\ ProcessTimeframe(tf)
    \/ CollectorUnstarted /\ ProcSignal

SpecTasks == InitTasks /\ [][NextTasks]_vars

(***************************************************************************)
(* Properties of the tasks together.                                       *)
(***************************************************************************)
\* C26: while no stop signal has been given, run has not returned, the
\* flush task has not returned, a connection task has returned only if its
\* address was rejected, and no aggregation loop has returned, whatever
\* connection, decode, persistence and processing errors there were.
C26_FailuresIsolated ==
    /\ running =>
          /\ runPc = "Gather"
          /\ flushPc # "Stopped"
          /\ \A t \in Tasks : pc[t] = "Stopped" => symbols[t] \in invalidUri
    /\ (procPc # "NotStarted" /\ ~signalled) =>
          /\ procPc = "Gather"
          /\ \A tf \in Timeframes : tfPc[tf] # "Stopped"

\* With no stop signal given, one connection sleeps in its backoff after
\* an error, a message was logged as an error, a write of the buffer has
\* failed, and the other connection is open and the flush task asleep.
C26_Witness ==
    /\ running
    /\ \E t, u \in Tasks :
          /\ pc[t] = "Disconnected" /\ wait[t] > 0
          /\ pc[u] = "Connected"
    /\ flushPc = "Sleeping"
    /\ recv.logged \in {"JSONDecodeError", "Exception"}
    /\ \E i \in 1..Len(writes) : ~writes[i].ok

(***************************************************************************)
(* The collector, with one connection that opens and receives trades, and  *)
(* the processor running at the same time on the database the collector    *)
(* writes.                                                                 *)
(***************************************************************************)
\* A second trade of the symbol, in the same second at another price.
CheapTrade ==
    Object([e |-> Str(TradeStr), s |-> Str(<<"A">>), p |-> Str(<<"2">>),
            q |-> Str(<<"7">>), T |-> Num(1000)])

PipelineMessages == {GoodTrade, CheapTrade}

InitPipeline ==
    /\ Init
    /\ symbols = << <<"a">> >>
    /\ invalidUri = {}

NextPipeline ==
    \/ RunStart
    \/ SaveBufferStart
    \/ SaveBufferWake
    \/ \E t \in Tasks : TaskStart(t)
    \/ \E t \in Tasks : ConnectOk(t)
    \/ \E t \in Tasks, m \in PipelineMessages : Receive(t, m)
    \/ ProcRunStart
    \/ \E tf \in Timeframes : ProcessTimeframe(tf)

SpecPipeline == InitPipeline /\ [][NextPipeline]_vars

(***************************************************************************)
(* Properties of the pipeline.                                             *)
(***************************************************************************)
\* The ticks of the ticks table in the bucket of the bar r of the ohlc
\* table.
PersistedFor(r) ==
    {t \in {x.row : x \in rows} :
        /\ t.symbol = r.row.symbol
        /\ BucketOf(t.timestamp, FreqWidth(r.row.timeframe)) = r.row.timestamp}

\* The bar is an aggregate of the ticks S: open and close are prices of S,
\* high and low its largest and smallest price, volume its sizes summed.
AggregateOf(b, S) ==
    /\ S # {}
    /\ \E t \in S : b.open = Float(t.price)
    /\ \E t \in S : b.close = Float(t.price)
    /\ b.high = Float(Maximum({t.price : t \in S}))
    /\ b.low = Float(Minimum({t.price : t \in S}))
    /\ b.volume = Float(SizeSum(S))

\* The ticks in the buffer that are not in the ticks table.
Unflushed ==
    {buffer[i].tick : i \in 1..Len(buffer)} \ {x.row : x \in rows}

\* C27: every bar of the ohlc table is an aggregate of ticks that are in
\* the ticks table, of the bar's symbol and bucket; a tick that is only in
\* the buffer is in none.
C27_BarsFromPersisted ==
    \A r \in ohlc : \E S \in SUBSET PersistedFor(r) : AggregateOf(r.row, S)

\* A cycle has written a bar from the one tick of the table while the
\* buffer holds a tick of the same bucket at another price.
C27_Witness ==
    /\ \E r \in ohlc : r.row.low = r.row.high
    /\ \E t \in Unflushed : \A r \in ohlc : r.row.open # Float(t.price)
    /\ cycleLog.tf # "none"
    /\ Len(buffer) = 1
    /\ Cardinality(rows) = 1

(***************************************************************************)
(* The functions of AnalyticsEngine (compute_ols_regression,               *)
(* compute_adf_test, compute_zscore, compute_spread), each called on       *)
(* its own.  A Series is the sequence of its values, a number or NaN;      *)
(* two Series given to one call carry the same index when they have the    *)
(* same length, as the columns of one merged frame do.  Numbers are        *)
(* integers and quotients of integers, arithmetic is exact.  One call is   *)
(* made.                                                                   *)
(***************************************************************************)
\* The longest Series given to the regression and to the ADF test.
MaxObs == 3
MaxAdfLen == 11

\* The fewest observations the regression and the ADF test accept.
OLS_MIN_OBS == 2
ADF_MIN_OBS == 10

\* The Series of up to k values out of vals.
SeriesUpTo(vals, k) == UNION {[1..n -> vals] : n \in 0..k}

\* mask = ~(x.isna() | y.isna())
PairMask(x, y) == [i \in 1..Len(x) |-> ~(IsNaN(x[i]) \/ IsNaN(y[i]))]

\* s[mask]: the values at the positions where the mask is true.
RECURSIVE Masked(_, _)
Masked(s, mask) ==
    IF s = <<>> THEN <<>>
    ELSE IF Head(mask) THEN <<Head(s)>> \o Masked(Tail(s), Tail(mask))
    ELSE Masked(Tail(s), Tail(mask))

\* Series.dropna()
SeriesDropNa(s) == SelectSeq(s, LAMBDA v : ~IsNaN(v))

\* What a function of the engine hands back: raised, or a dict that has
\* either the key 'error' (error # "none") or the numeric fields.
ErrorResult(msg) ==
    [raised |-> FALSE, error |-> msg, numeric |-> FALSE, n_observations |-> 0]
NumericResult(n) ==
    [raised |-> FALSE, error |-> "none", numeric |-> TRUE, n_observations |-> n]

\* A quotient of two integers, the divisor not 0.
Quot(n, d) == [num |-> n, den |-> d]

\* The sum of the products of two sequences of numbers.
DotSum(p, q) == SeqSum([i \in 1..Len(p) |-> p[i] * q[i]])

\* The numbers of the result when the two columns of the design matrix
\* are collinear (x is constant): the least-norm solution of pinv, not
\* computed here.
DegenerateFit == [degenerate |-> TRUE]

\* The fit of y on x alone, without the column of ones.
OlsFitNoConst(xs, ys) ==
    LET sxx == DotSum(xs, xs)
        sxy == DotSum(xs, ys)
        res == [i \in 1..Len(xs) |-> sxx * ys[i] - sxy * xs[i]]
        tss == Len(xs) * DotSum(ys, ys) - SeqSum(ys) * SeqSum(ys)
    IN  IF sxx = 0 THEN DegenerateFit
        ELSE [degenerate |-> FALSE,
              hedge_ratio |-> Quot(sxy, sxx),
              intercept |-> Quot(0, 1),
              r_squared |-> IF tss = 0 THEN NaN
                            ELSE Float(Quot(sxx * sxx * tss
                                            - Len(xs) * DotSum(res, res),
                                            sxx * sxx * tss)),
              spread_mean |-> Quot(SeqSum(res), sxx * Len(xs)),
              spread_std |-> [sqrtOf |-> Quot(DotSum(res, res),
                                             sxx * sxx * (Len(xs) - 1))]]

\* OLS(y_clean, x_with_const).fit() and the residuals, in exact
\* arithmetic: with n points and den = n * sum(x^2) - sum(x)^2,
\*   hedge_ratio = (n * sum(xy) - sum(x) * sum(y)) / den
\*   intercept   = (sum(y) * sum(x^2) - sum(x) * sum(xy)) / den
\*   residual i  = (den * y[i] - slope part * x[i] - intercept part) / den
\*   r_squared   = 1 - sum(residual^2) / sum((y - mean(y))^2), NaN for 0/0
\*   spread_mean = sum(residual) / n
\*   spread_std  = sqrt(sum((residual - mean)^2) / (n - 1))
OlsFit(xs, ys) ==
    LET n == Len(xs)
        sx == SeqSum(xs)
        sy == SeqSum(ys)
        den == n * DotSum(xs, xs) - sx * sx
        slope == n * DotSum(xs, ys) - sx * sy
        icept == sy * DotSum(xs, xs) - sx * DotSum(xs, ys)
        res == [i \in 1..n |-> den * ys[i] - slope * xs[i] - icept]
        dev == [i \in 1..n |-> n * res[i] - SeqSum(res)]
        tss == n * DotSum(ys, ys) - sy * sy
    IN  IF den = 0 THEN DegenerateFit
        ELSE [degenerate |-> FALSE,
              hedge_ratio |-> Quot(slope, den),
              intercept |-> Quot(icept, den),
              r_squared |-> IF tss = 0 THEN NaN
                            ELSE Float(Quot(den * den * tss - n * DotSum(res, res),
                                            den * den * tss)),
              spread_mean |-> Quot(SeqSum(res), den * n),
              spread_std |-> [sqrtOf |-> Quot(DotSum(dev, dev),
                                             n * n * den * den * (n - 1))]]

\* The numbers of the robust fit (HuberRegressor), not computed here.
HuberFit == [degenerate |-> FALSE, huber |-> TRUE]

\* The result dict of a regression that did not fail.
OlsResult(n, fit) ==
    [raised |-> FALSE, error |-> "none", numeric |-> TRUE,
     n_observations |-> n, fit |-> fit]

\* The numbers of a cleaned Series.
Numbers(s) == [i \in 1..Len(s) |-> s[i].val]

\* compute_ols_regression without the test of the cleaned length.
ComputeOlsRegressionNoCleanTest(x, y, robust, huber, fitRaises) ==
    IF Len(x) < OLS_MIN_OBS \/ Len(y) < OLS_MIN_OBS \/ Len(x) # Len(y)
    THEN ErrorResult("Insufficient data for regression")
    ELSE LET x_clean == Masked(x, PairMask(x, y))
             y_clean == Masked(y, PairMask(x, y))
         IN  IF robust /\ huber
             THEN IF fitRaises THEN ErrorResult("str(e)")
                  ELSE OlsResult(Len(x_clean), HuberFit)
             ELSE OlsResult(Len(x_clean),
                            OlsFit(Numbers(x_clean), Numbers(y_clean)))

\* compute_ols_regression(x, y, robust).  huber is HUBER_AVAILABLE: the
\* robust fit is made when it is asked for and available, the OLS fit
\* otherwise.  fitRaises says whether the robust fit raises (the solver
\* of HuberRegressor may fail), which the except clause turns into an
\* error result; the OLS fit of numbers does not raise.
ComputeOlsRegression(x, y, robust, huber, fitRaises) ==
    IF Len(x) < OLS_MIN_OBS \/ Len(y) < OLS_MIN_OBS \/ Len(x) # Len(y)
    THEN ErrorResult("Insufficient data for regression")
    ELSE LET x_clean == Masked(x, PairMask(x, y))
             y_clean == Masked(y, PairMask(x, y))
         IN  IF Len(x_clean) < OLS_MIN_OBS
             THEN ErrorResult("Insufficient valid data")
             ELSE IF robust /\ huber
             THEN IF fitRaises THEN ErrorResult("str(e)")
                  ELSE OlsResult(Len(x_clean), HuberFit)
             ELSE OlsResult(Len(x_clean),
                            OlsFit(Numbers(x_clean), Numbers(y_clean)))

\* compute_adf_test testing the length of the series before dropna only.
ComputeAdfTestNoCleanTest(series, fitRaises) ==
    IF series = <<>> \/ Len(series) < ADF_MIN_OBS
    THEN ErrorResult("Insufficient data for ADF test")
    ELSE IF fitRaises THEN ErrorResult("str(e)")
    ELSE NumericResult(Len(SeriesDropNa(series)))

\* compute_adf_test(series).  fitRaises says whether adfuller or a
\* conversion raises, which the except clause turns into an error result.
ComputeAdfTest(series, fitRaises) ==
    IF series = <<>> \/ Len(series) < ADF_MIN_OBS
    THEN ErrorResult("Insufficient data for ADF test")
    ELSE LET series_clean == SeriesDropNa(series)
         IN  IF Len(series_clean) < ADF_MIN_OBS
             THEN ErrorResult("Insufficient valid data")
             ELSE IF fitRaises THEN ErrorResult("str(e)")
             ELSE NumericResult(Len(series_clean))

\* The values of the two Series of the regression and of the Series of
\* the ADF test.
OlsValues == {Float(1), Float(2), NaN}
OlsYValues == {Float(3), Float(5), NaN}
AdfValues == {Float(1), NaN}

\* The longest frame given to compute_spread and the widest rolling window
\* given to compute_zscore.
MaxBars == 3
MaxWindow == 3

\* The values of the window of width w that ends at position i, <<>> when
\* fewer than w values precede the end.
WindowAt(s, i, w) == IF i < w THEN <<>> ELSE SubSeq(s, i - w + 1, i)

\* The window yields NaN: it is not full or holds a NaN (min_periods is
\* the window).
WindowIsNaN(q) == q = <<>> \/ \E k \in 1..Len(q) : IsNaN(q[k])

\* series.rolling(window).mean() at position i, times the window: the sum
\* of the window.
RollingSum(s, i, w) ==
    LET q == WindowAt(s, i, w)
    IN  IF WindowIsNaN(q) THEN NaN
        ELSE Float(SeqSum([k \in 1..w |-> q[k].val]))

\* series.rolling(window).std() at position i, squared and times
\* w * (w - 1): w * sum(x^2) - sum(x)^2.  The sample deviation of a single
\* value is NaN (ddof = 1).
RollingVarNum(s, i, w) ==
    LET q == WindowAt(s, i, w)
    IN  IF WindowIsNaN(q) \/ w < 2 THEN NaN
        ELSE Float(w * SeqSum([k \in 1..w |-> q[k].val * q[k].val])
                   - SeqSum([k \in 1..w |-> q[k].val])
                     * SeqSum([k \in 1..w |-> q[k].val]))

\* rolling_std.replace(0, 1)
ReplaceZeroByOne(v) == IF ~IsNaN(v) /\ v.val = 0 THEN Float(1) ELSE v

\* rolling_std.replace(0, np.nan)
ReplaceZero(v) == IF ~IsNaN(v) /\ v.val = 0 THEN NaN ELSE v

\* (series - rolling_mean) / rolling_std at position i: NaN when a term
\* is NaN, else the number (w * x - sum) / w / sqrt(varnum / (w * (w - 1))),
\* kept as its integer parts.
ZscoreAt(s, i, w) ==
    LET sum == RollingSum(s, i, w)
        std == ReplaceZero(RollingVarNum(s, i, w))
    IN  IF IsNaN(s[i]) \/ IsNaN(sum) \/ IsNaN(std) THEN NaN
        ELSE Float([dev |-> w * s[i].val - sum.val, window |-> w,
                    varnum |-> std.val])

\* compute_zscore(series, window): an empty Series for an empty one.
ComputeZscore(series, window) ==
    IF series = <<>> THEN <<>>
    ELSE [i \in 1..Len(series) |-> ZscoreAt(series, i, window)]

\* hedge_ratio: None, or a number.
NoHedgeRatio == [none |-> TRUE, val |-> 0]
HedgeRatio(h) == [none |-> FALSE, val |-> h]

\* `if hedge_ratio:` - None and 0 are false.
HedgeTruthy(h) == ~h.none /\ h.val # 0

\* The frames of up to k rows with the columns timestamp and close, the
\* timestamps increasing: one symbol's bars.
BarFrames(closes, k) ==
    {f \in UNION {[1..n -> [timestamp : 0..(k - 1), close : closes]] : n \in 0..k} :
        \A i, j \in 1..Len(f) : i < j => f[i].timestamp < f[j].timestamp}

\* merge_asof(left, right, on='timestamp') for one row of `left`: the row
\* with the close of the last row of `right` at or before its timestamp,
\* NaN when there is none.
AsOfRow(row, left, right) ==
    LET before == {j \in 1..Len(right) : right[j].timestamp <= row.timestamp}
    IN  [timestamp |-> row.timestamp,
         close_1 |-> Float(row.close),
         close_2 |-> IF before = {} THEN NaN
                     ELSE Float(right[Maximum(before)].close)]

\* pd.merge_asof(df1, df2, on='timestamp', suffixes=('_1', '_2')): a left
\* join, one row for each row of df1.
MergeAsOf(left, right) ==
    [i \in 1..Len(left) |-> AsOfRow(left[i], left, right)]

\* The ratio the spread is taken with: the one given when it is true,
\* else 1.
EffectiveRatio(h) == IF HedgeTruthy(h) THEN h.val ELSE 1

\* compute_spread(df1, df2, hedge_ratio=h): close_2 - ratio * close_1 for
\* each merged row, NaN where a term is NaN; an empty Series when a frame
\* is empty.
ComputeSpread(df1, df2, h) ==
    IF df1 = <<>> \/ df2 = <<>> THEN <<>>
    ELSE LET merged == MergeAsOf(df1, df2)
         IN  [i \in 1..Len(merged) |->
                 IF IsNaN(merged[i].close_1) \/ IsNaN(merged[i].close_2) THEN NaN
                 ELSE Float(merged[i].close_2.val
                            - EffectiveRatio(h) * merged[i].close_1.val)]

\* The values of the Series given to compute_zscore, the closes of the
\* two frames given to compute_spread, and the hedge ratios.
ZscoreValues == {Float(5), Float(7), NaN}
Closes1 == {10, 12}
Closes2 == {15, 17}
HedgeRatios == {NoHedgeRatio, HedgeRatio(0), HedgeRatio(2), HedgeRatio(0 - 1)}

InitAnalytics ==
    /\ Init
    /\ symbols = << <<"a">> >>
    /\ invalidUri = {}

OlsCall ==
    /\ AnalyticsIdle
    /\ \E x \in SeriesUpTo(OlsValues, MaxObs), y \in SeriesUpTo(OlsYValues, MaxObs),
          robust, huber, fitRaises \in BOOLEAN :
          anCall' = [fn |-> "compute_ols_regression", x |-> x, y |-> y,
                     robust |-> robust, huber |-> huber,
                     out |-> ComputeOlsRegression(x, y, robust, huber, fitRaises)]
    /\ UNCHANGED <<collectorVars, nzVars, rsVars, prVars, dbVars>>

AdfCall ==
    /\ AnalyticsIdle
    /\ \E series \in SeriesUpTo(AdfValues, MaxAdfLen), fitRaises \in BOOLEAN :
          anCall' = [fn |-> "compute_adf_test", series |-> series,
                     out |-> ComputeAdfTest(series, fitRaises)]
    /\ UNCHANGED <<collectorVars, nzVars, rsVars, prVars, dbVars>>

ZscoreCall ==
    /\ AnalyticsIdle
    /\ \E series \in SeriesUpTo(ZscoreValues, MaxObs), window \in 1..MaxWindow :
          anCall' = [fn |-> "compute_zscore", series |-> series,
                     window |-> window,
                     out |-> ComputeZscore(series, window)]
    /\ UNCHANGED <<collectorVars, nzVars, rsVars, prVars, dbVars>>

SpreadCall ==
    /\ AnalyticsIdle
    /\ \E df1 \in BarFrames(Closes1, MaxBars), df2 \in BarFrames(Closes2, MaxBars),
          h \in HedgeRatios :
          anCall' = [fn |-> "compute_spread", df1 |-> df1, df2 |-> df2,
                     hedge_ratio |-> h,
                     out |-> ComputeSpread(df1, df2, h)]
    /\ UNCHANGED <<collectorVars, nzVars, rsVars, prVars, dbVars>>

NextAnalytics == OlsCall \/ AdfCall \/ ZscoreCall \/ SpreadCall

SpecAnalytics == InitAnalytics /\ [][NextAnalytics]_vars

(***************************************************************************)
(* Properties of the analytics functions.                                  *)
(***************************************************************************)
\* The positions at which both Series have a value.
PairedAt(x, y) ==
    {i \in 1..Min(Len(x), Len(y)) : ~IsNaN(x[i]) /\ ~IsNaN(y[i])}

\* The result is a dict with the key 'error' and without numeric fields.
IsErrorResult(out) == ~out.raised /\ out.error # "none" /\ ~out.numeric

\* C29: compute_ols_regression returns an error result, and raises
\* nothing, when the two Series differ in length and when fewer than 2
\* positions have a value in both.
C29_OlsInsufficient ==
    anCall.fn = "compute_ols_regression" =>
        /\ ~anCall.out.raised
        /\ (Len(anCall.x) # Len(anCall.y)
            \/ Cardinality(PairedAt(anCall.x, anCall.y)) < 2) =>
               IsErrorResult(anCall.out)

\* Two Series of three values with a value in both at one position only
\* were given, and the call returned an error result.
C29_Witness ==
    /\ anCall.fn = "compute_ols_regression"
    /\ Len(anCall.x) = 3
    /\ Len(anCall.y) = 3
    /\ Cardinality(PairedAt(anCall.x, anCall.y)) = 1
    /\ anCall.out.error = "Insufficient valid data"

\* The number of values of the Series.
Present(s) == Cardinality({i \in 1..Len(s) : ~IsNaN(s[i])})

\* C30: compute_adf_test returns an error result without a statistic when
\* the Series has fewer than 10 values, whatever its length.
C30_AdfInsufficient ==
    anCall.fn = "compute_adf_test" =>
        /\ ~anCall.out.raised
        /\ Present(anCall.series) < 10 => IsErrorResult(anCall.out)

\* A Series of more than 10 entries with 9 values was given, and the call
\* returned an error result.
C30_Witness ==
    /\ anCall.fn = "compute_adf_test"
    /\ Len(anCall.series) > 10
    /\ Present(anCall.series) = 9
    /\ anCall.out.error = "Insufficient valid data"

\* Every entry of the Series is the same number.
IsConstant(s) ==
    \A i \in 1..Len(s) : ~IsNaN(s[i]) /\ s[i] = s[1]

\* Every entry of the Series is NaN.
AllNaN(s) == \A i \in 1..Len(s) : IsNaN(s[i])

\* The two frames have the same timestamps, row by row.
Aligned(df1, df2) ==
    /\ Len(df1) = Len(df2)
    /\ \A i \in 1..Len(df1) : df1[i].timestamp = df2[i].timestamp

\* C31: the z-score of a constant Series is NaN at every position, for
\* every window; the spread of two aligned frames whose closes differ by 5
\* is 5 in every row, and its z-score is NaN at every position.
C31_ConstantZscore ==
    /\ (anCall.fn = "compute_zscore" /\ IsConstant(anCall.series)) =>
          /\ Len(anCall.out) = Len(anCall.series)
          /\ AllNaN(anCall.out)
    /\ (/\ anCall.fn = "compute_spread"
        /\ anCall.hedge_ratio.none
        /\ Aligned(anCall.df1, anCall.df2)
        /\ \A i \in 1..Len(anCall.df1) :
              anCall.df2[i].close = anCall.df1[i].close + 5) =>
          /\ Len(anCall.out) = Len(anCall.df1)
          /\ \A i \in 1..Len(anCall.out) : anCall.out[i] = Float(5)
          /\ \A w \in 1..MaxWindow :
                /\ Len(ComputeZscore(anCall.out, w)) = Len(anCall.out)
                /\ AllNaN(ComputeZscore(anCall.out, w))

\* compute_zscore was called with a constant Series of three values and a
\* window of two, so that two windows are full and have deviation 0.
C31_Witness ==
    /\ anCall.fn = "compute_zscore"
    /\ Len(anCall.series) = 3
    /\ IsConstant(anCall.series)
    /\ anCall.window = 2
    /\ AllNaN(anCall.out)

\* The ratio a call is made with: the one supplied, 1 when none is.
SuppliedRatio(h) == IF h.none THEN 1 ELSE h.val

\* C32: for two aligned frames A and B and every supplied hedge ratio h,
\* 0 and negative ones included, compute_spread returns B - h * A at every
\* row, and B - A when no ratio is supplied.
C32_SpreadUsesRatio ==
    (/\ anCall.fn = "compute_spread"
     /\ anCall.df1 # <<>>
     /\ Aligned(anCall.df1, anCall.df2)) =>
        /\ Len(anCall.out) = Len(anCall.df1)
        /\ \A i \in 1..Len(anCall.out) :
              anCall.out[i] = Float(anCall.df2[i].close
                                    - SuppliedRatio(anCall.hedge_ratio)
                                      * anCall.df1[i].close)

\* The rows of frame A at or before the timestamp ts.
AtOrBefore(df, ts) == {j \in 1..Len(df) : df[j].timestamp <= ts}

\* C33: compute_spread (with no ratio supplied) returns one value for each
\* row of frame B, taken with the last row of frame A at or before that
\* row's timestamp.
C33_SpreadAsOfB ==
    (/\ anCall.fn = "compute_spread"
     /\ anCall.hedge_ratio.none
     /\ anCall.df1 # <<>>
     /\ anCall.df2 # <<>>) =>
        /\ Len(anCall.out) = Len(anCall.df2)
        /\ \A j \in 1..Len(anCall.out) :
              LET before == AtOrBefore(anCall.df1, anCall.df2[j].timestamp)
              IN  anCall.out[j] =
                     IF before = {} THEN NaN
                     ELSE Float(anCall.df2[j].close
                                - anCall.df1[Maximum(before)].close)

\* The quotient is the integer k.
QuotIs(q, k) == q.num = k * q.den

\* C34: the OLS fit of y = 2x + 1 on x, for x of at least 2 numbers of
\* which two differ, returns hedge_ratio 2, intercept 1, r_squared 1,
\* spread_mean 0 and spread_std 0, and the number of points as
\* n_observations.
C34_OlsExactLine ==
    (/\ anCall.fn = "compute_ols_regression"
     /\ ~(anCall.robust /\ anCall.huber)
     /\ Len(anCall.x) >= 2
     /\ Len(anCall.y) = Len(anCall.x)
     /\ \A i \in 1..Len(anCall.x) :
           /\ ~IsNaN(anCall.x[i])
           /\ anCall.y[i] = Float(2 * anCall.x[i].val + 1)
     /\ \E i, j \in 1..Len(anCall.x) : anCall.x[i] # anCall.x[j]) =>
        /\ IsErrorResult(anCall.out) = FALSE
        /\ anCall.out.numeric
        /\ anCall.out.n_observations = Len(anCall.x)
        /\ ~anCall.out.fit.degenerate
        /\ QuotIs(anCall.out.fit.hedge_ratio, 2)
        /\ QuotIs(anCall.out.fit.intercept, 1)
        /\ ~IsNaN(anCall.out.fit.r_squared)
        /\ QuotIs(anCall.out.fit.r_squared.val, 1)
        /\ QuotIs(anCall.out.fit.spread_mean, 0)
        /\ QuotIs(anCall.out.fit.spread_std.sqrtOf, 0)

\* The regression was called, without the robust fit, on x = 1, 2, 1 and
\* y = 3, 5, 3 and returned the slope 2.
C34_Witness ==
    /\ anCall.fn = "compute_ols_regression"
    /\ ~anCall.robust
    /\ anCall.x = <<Float(1), Float(2), Float(1)>>
    /\ anCall.y = <<Float(3), Float(5), Float(3)>>
    /\ anCall.out.numeric
    /\ QuotIs(anCall.out.fit.hedge_ratio, 2)

(***************************************************************************)
(* Properties of the life of a connection task.                            *)
(***************************************************************************)
\* The transitions of a Feed Connection; a task is created Disconnected.
FeedTransitions ==
    {<<"NotStarted", "Disconnected">>,
     <<"Disconnected", "Connecting">>,
     <<"Connecting", "Connected">>,
     <<"Connecting", "Disconnected">>,
     <<"Connected", "Disconnected">>,
     <<"Disconnected", "Stopped">>,
     <<"Connecting", "Stopped">>,
     <<"Connected", "Stopped">>}

\* Task t appends a tick to the buffer in this step.
AppendsTick(t) ==
    \E i \in 1..Len(buffer') : buffer'[i].conn = t /\ buffer'[i] \notin Range(buffer)

\* C35: a connection task changes its state only along the transitions of
\* the Feed Connection, and once it is Stopped it stays Stopped, appends no
\* tick and the delay of its symbol does not change.
C35_FeedStateMachine ==
    [][\A t \in Tasks :
          /\ pc'[t] # pc[t] => <<pc[t], pc'[t]>> \in FeedTransitions
          /\ pc[t] = "Stopped" =>
                /\ pc'[t] = "Stopped"
                /\ ~AppendsTick(t)
                /\ delays'[symbols[t]] = delays[symbols[t]]]_vars


(***************************************************************************)
(* Properties of the recomputation of bars.                                *)
(***************************************************************************)
\* The bar is the aggregate of all the ticks S: open is a price of the
\* earliest instant of S, close one of the latest, high and low the
\* largest and smallest price, volume the sizes summed.
FullAggregate(b, S) ==
    /\ AggregateOf(b, S)
    /\ \E t \in S : /\ b.open = Float(t.price)
                    /\ \A u \in S : t.timestamp <= u.timestamp
    /\ \E t \in S : /\ b.close = Float(t.price)
                    /\ \A u \in S : u.timestamp <= t.timestamp

\* C36: while no tick is added, a bar of the ohlc table that is the
\* aggregate of all the ticks the ticks table has for its symbol and bucket
\* is left as it is by every aggregation cycle, also by a cycle whose
\* window starts inside the bucket.
C36_RecomputeKeepsBar ==
    [][\A r \in ohlc :
          (rows' = rows /\ FullAggregate(r.row, PersistedFor(r))) => r \in ohlc']_vars


\* The ticks of the ticks table that have the symbol.
TicksOfSymbol(symbol) == {t \in {x.row : x \in rows} : t.symbol = symbol}

\* C37: every bar of the ohlc table is an aggregate of ticks of the ticks
\* table that carry the bar's own symbol, whatever symbol get_symbols
\* returned, the empty string included.
C37_BarsOfOwnSymbol ==
    \A r \in ohlc :
        /\ r.row.symbol \in GetSymbols(rows)
        /\ \E S \in SUBSET TicksOfSymbol(r.row.symbol) : AggregateOf(r.row, S)


(***************************************************************************)
(* The methods of Database called on their own, one table at a time, or    *)
(* the processor run on a table of at most two ticks: writes that fail.    *)
(***************************************************************************)
InitStore ==
    \/ InitDb
    \/ InitProc /\ Cardinality(rows) <= 2

NextStore ==
    \/ ProcessorIdle /\ ohlc = {} /\ InsertTicksBatchCall
    \/ ProcessorIdle /\ rows = {} /\ InsertOhlcCall
    \/ DbIdle /\ ProcRunStart
    \/ \E tf \in Timeframes : DbIdle /\ ProcessTimeframe(tf)

SpecStore == InitStore /\ [][NextStore]_vars

(***************************************************************************)
(* Properties of writes that fail.                                         *)
(***************************************************************************)
\* The bars of a table under the timeframe and the timestamps.
BarsAt(table, tf, stamps) ==
    {r \in table : r.row.timeframe = tf /\ r.row.timestamp \in stamps}

\* The bar timestamps the cycle computes for the symbol.
BucketsOf(symbol, tf, now) ==
    {BucketOf(t.timestamp, FreqWidth(tf)) :
        t \in GetTicks(rows, symbol, now - WindowLength, now)}

\* C38: a call of insert_ticks_batch that fails leaves the ticks table as
\* it was and raises nothing, and a batch written after it is stored; a
\* call of insert_ohlc that fails leaves the ohlc table as it was and
\* raises nothing; a cycle in which inserts of bars fail and nothing else
\* raises leaves the bars of the failing timestamps as they were, still
\* writes every other bar of every symbol and ends in its normal sleep.
C38_FailedWritesDropped ==
    [][/\ (dbCall'.op = "insert_ticks_batch" /\ ~dbCall'.ok) =>
              /\ rows' = rows
              /\ ~dbCall'.raised
       /\ (/\ dbCall.op = "insert_ticks_batch" /\ ~dbCall.ok
           /\ dbCall'.op = "insert_ticks_batch" /\ dbCall'.ok) =>
              \A i \in 1..Len(dbCall'.batch) :
                  dbCall'.batch[i].tick \in {r.row : r \in rows'}
       /\ (dbCall'.op = "insert_ohlc" /\ ~dbCall'.ok) =>
              /\ ohlc' = ohlc
              /\ ~dbCall'.raised
       /\ (tfCycles' # tfCycles /\ cycleLog'.failAt = 0) =>
              LET tf == cycleLog'.tf
                  syms == cycleLog'.syms
              IN  /\ BarsAt(ohlc', tf, cycleLog'.failing)
                        = BarsAt(ohlc, tf, cycleLog'.failing)
                  /\ cycleLog'.fetched = syms
                  /\ \A i \in 1..Len(syms) :
                        \A b \in BucketsOf(syms[i], tf, cycleLog'.now) \ cycleLog'.failing :
                            \E r \in ohlc' : r.id = OhlcId(syms[i], tf, b)
                  /\ tfPc'[tf] = "Sleeping"
                  /\ tfSleep'[tf] = SleepAfter(tf, FALSE)]_vars

\* A batch with a tick the table does not hold has failed on a table that
\* holds a tick.
C38_Witness ==
    /\ dbCall.op = "insert_ticks_batch"
    /\ ~dbCall.ok
    /\ dbCall.had # {}
    /\ \E i \in 1..Len(dbCall.batch) :
          dbCall.batch[i].tick \notin {r.row : r \in dbCall.had}

\* A cycle has written a bar after the insert of an earlier bar failed.
FailedInsertPassed ==
    /\ cycleLog.tf # "none"
    /\ cycleLog.failAt = 0
    /\ \E b \in cycleLog.failing :
          /\ \A r \in ohlc : r.row.timestamp # b
          /\ \E r \in ohlc : r.row.timeframe = cycleLog.tf /\ r.row.timestamp > b


(***************************************************************************)
(* The collector with one symbol, under the fairness of the event loop:    *)
(* a sleep ends, a queued task is run, a connection attempt ends.          *)
(***************************************************************************)
InitRetry == Init /\ Len(symbols) = 1

SpecRetry == InitRetry /\ [][Next]_vars /\ CollectorFairness

\* C39: while the flag is up and the address is accepted, a connection
\* task has not returned, its sleep is never longer than 60, and from
\* Disconnected it goes on to a connection attempt unless the stop signal
\* comes first, however many attempts have failed.
C39_NeverGivesUp ==
    /\ [](\A t \in Tasks :
             /\ wait[t] <= MAX_RECONNECT_DELAY
             /\ (running /\ symbols[t] \notin invalidUri) => pc[t] # "Stopped")
    /\ \A t \in AllTasks :
          (IF t \in Tasks
           THEN pc[t] = "Disconnected" /\ running /\ symbols[t] \notin invalidUri
           ELSE FALSE)
             ~> (IF t \in Tasks THEN pc[t] = "Connecting" \/ ~running ELSE TRUE)

\* A task sleeps the longest delay, the flag up and its address accepted.
C39_Witness ==
    \E t \in Tasks :
        /\ pc[t] = "Disconnected"
        /\ wait[t] = MAX_RECONNECT_DELAY
        /\ running
        /\ symbols[t] \notin invalidUri

====
